---- MODULE Spec2Model ----
(***************************************************************************)
(* Stochastic block partitioning (GraphChallenge baseline): the block      *)
(* model state (block_assignment, interblock_edge_count, block degrees),   *)
(* the edge-count update kernels, the proposal kernel, the merge commit    *)
(* and the vertex phase that commits accepted moves.                       *)
(* With them: the search for the number of blocks, the two entropy        *)
(* functions, the loader of the edge files and the vertex sample.          *)
(*                                                                         *)
(* The run is the dense one (use_sparse = False): the matrix is a B x B    *)
(* array, partition.blockmodel of block_merge.py being that array.  A      *)
(* two-dimensional numpy array is a sequence of rows.                      *)
(***************************************************************************)
EXTENDS Integers, Sequences, FiniteSets, TLC

(***************************************************************************)
(* Bounds of the model.                                                    *)
(***************************************************************************)
NumVertices == 3     \* N, vertices of the graphs of Spec
MergeVertices == 4   \* N, vertices of the partitions of SpecMerge
MaxWeight == 2       \* largest edge weight in an edge row
MaxEdgeRows == 2     \* most edge rows of a graph
MaxIterations == 2   \* most sweeps of one vertex phase, where more than one is run
MaxDelta == 0        \* delta entropies are ranked 0 .. MaxDelta
num_agg_proposals_per_block == 1   \* merge proposals scored per block

Vertices == 0 .. (NumVertices - 1)
\* the ids of a file, 1-based
Vertices1 == 1 .. NumVertices
VerticesOf(N) == 0 .. (N - 1)
Blocks(B) == 0 .. (B - 1)

(***************************************************************************)
(* Sums.                                                                   *)
(***************************************************************************)
RECURSIVE SumOver(_, _)
SumOver(f, S) ==
    IF S = {} THEN 0
    ELSE LET x == CHOOSE y \in S : TRUE IN f[x] + SumOver(f, S \ {x})

\* the elements of a set of integers in ascending order
RECURSIVE SortedSeq(_)
SortedSeq(S) ==
    IF S = {} THEN << >>
    ELSE LET x == CHOOSE y \in S : \A z \in S : y <= z
         IN <<x>> \o SortedSeq(S \ {x})

(***************************************************************************)
(* Graph: out_neighbors[v] and in_neighbors[v] are arrays of shape (n, 2), *)
(* a row <<neighbour id, weight>> per edge row of the file, in file order  *)
(* (shape (0, 2) for a vertex without such rows); num_edges is the number  *)
(* of rows.  Ids here are the 0-based ids the loader stores, N the number  *)
(* of vertices of the Graph.                                               *)
(***************************************************************************)
EdgeRow == [from : Vertices, to : Vertices, weight : 1 .. MaxWeight]

RowCode(e) == ((e.from * NumVertices) + e.to) * (MaxWeight + 1) + e.weight

\* edge files: the row order only fixes the order inside a neighbour array,
\* which the partitioner never reads, so one order per multiset of rows
EdgeFiles ==
    UNION { { rows \in [1 .. k -> EdgeRow] :
                \A i \in 1 .. (k - 1) : RowCode(rows[i]) <= RowCode(rows[i + 1]) }
            : k \in 0 .. MaxEdgeRows }

RECURSIVE OutRows(_, _)
OutRows(rows, v) ==
    IF rows = << >> THEN << >>
    ELSE IF Head(rows).from = v
         THEN << <<Head(rows).to, Head(rows).weight>> >> \o OutRows(Tail(rows), v)
         ELSE OutRows(Tail(rows), v)

RECURSIVE InRows(_, _)
InRows(rows, v) ==
    IF rows = << >> THEN << >>
    ELSE IF Head(rows).to = v
         THEN << <<Head(rows).from, Head(rows).weight>> >> \o InRows(Tail(rows), v)
         ELSE InRows(Tail(rows), v)

\* E = sum(len(v) for v in out_neighbors)
NumEdgesOf(outn) == SumOver([v \in DOMAIN outn |-> Len(outn[v])], DOMAIN outn)

load_graph(rows, N) ==
    LET outn == [v \in VerticesOf(N) |-> OutRows(rows, v)]
        inn == [v \in VerticesOf(N) |-> InRows(rows, v)]
    IN [out_neighbors |-> outn, in_neighbors |-> inn,
        num_nodes |-> N, num_edges |-> NumEdgesOf(outn)]

\* the complete directed graph on N vertices, every edge of weight 1, with
\* or without a self-loop at every vertex
DenseRows(N, loops) ==
    LET codes == SortedSeq({i * N + j : i, j \in VerticesOf(N)}
                           \ (IF loops THEN {} ELSE {i * N + i : i \in VerticesOf(N)}))
    IN [x \in 1 .. Len(codes) |->
           [from |-> codes[x] \div N, to |-> codes[x] % N, weight |-> 1]]

VARIABLES
    graph,                  \* Graph: out_neighbors, in_neighbors, num_nodes, num_edges
    max_num_nodal_itr,      \* configuration: most sweeps of one vertex phase
    num_blocks,             \* partition.num_blocks
    block_assignment,       \* partition.block_assignment
    interblock_edge_count,  \* partition.interblock_edge_count (M)
    block_degrees_out,      \* partition.block_degrees_out
    block_degrees_in,       \* partition.block_degrees_in
    block_degrees,          \* partition.block_degrees
    num_blocks_to_merge,    \* partition.num_blocks_to_merge
    phase,                  \* position of the run
    cursor,                 \* current_block of the merge scoring / ni of the sweep
    iteration,              \* sweeps done in this vertex phase
    best_merge_for_each_block,
    delta_entropy_for_each_block,
    proposal,               \* the last proposal and what became of it
    before_merge,           \* what the last merge pass began with, until the driver's next step
    edge_count_updates,     \* the last EdgeCountUpdates a kernel returned
    block_reduction_rate,   \* configuration: B_rate, numerator over denominator
    overall_entropy,        \* partition.overall_entropy
    move_delta_entropy,     \* the last delta entropy compute_delta_entropy returned
    partition_triplet,      \* PartitionTriplet: partitions, optimal_num_blocks_found
    commit,                 \* carry_out_best_merges in progress: its locals
    edge_files,             \* the .tsv parts Graph.load reads, as read_csv returns them
    sample                  \* Sample: state.sample_idx and what __init__ builds from it

vars == <<graph, max_num_nodal_itr, num_blocks, block_assignment, interblock_edge_count,
          block_degrees_out, block_degrees_in, block_degrees,
          num_blocks_to_merge, phase, cursor, iteration,
          best_merge_for_each_block, delta_entropy_for_each_block,
          proposal, before_merge, edge_count_updates,
          block_reduction_rate, overall_entropy, move_delta_entropy, partition_triplet,
          commit, edge_files, sample>>

\* the golden-section search's state: the specifications of the two phases
\* leave it as it is
searchVars == <<block_reduction_rate, overall_entropy, move_delta_entropy, partition_triplet>>

(***************************************************************************)
(* Partition.initialize_edge_counts: M, d_out, d_in, d recomputed from     *)
(* the assignment and the graph's adjacency.                               *)
(***************************************************************************)
\* weight of the rows of nbrs whose neighbour lies in block t under b
RECURSIVE BlockWeight(_, _, _)
BlockWeight(nbrs, b, t) ==
    IF nbrs = << >> THEN 0
    ELSE (IF b[Head(nbrs)[1]] = t THEN Head(nbrs)[2] ELSE 0)
         + BlockWeight(Tail(nbrs), b, t)

EdgeCountsOf(outn, b, B) ==
    [i \in Blocks(B) |-> [j \in Blocks(B) |->
        SumOver([v \in DOMAIN b |-> IF b[v] = i THEN BlockWeight(outn[v], b, j) ELSE 0],
                DOMAIN b)]]

RowSums(M, B) == [i \in Blocks(B) |-> SumOver(M[i], Blocks(B))]
ColSums(M, B) == [j \in Blocks(B) |-> SumOver([i \in Blocks(B) |-> M[i][j]], Blocks(B))]
TotalOf(M, B) == SumOver(RowSums(M, B), Blocks(B))

initialize_edge_counts(outn, b, B) ==
    LET M == EdgeCountsOf(outn, b, B)
        dout == RowSums(M, B)
        din == ColSums(M, B)
    IN [M |-> M, d_out |-> dout, d_in |-> din,
        d |-> [i \in Blocks(B) |-> dout[i] + din[i]]]

NoProposal == [kind |-> "none", ni |-> 0, r |-> 0, s |-> 0, path |-> "none",
               k_out |-> 0, k_in |-> 0, k |-> 0]
NoMerge == [block_assignment |-> << >>, num_blocks |-> 0]
\* no Sample has been asked for
NoSample == [sample_idx |-> << >>, vertex_mapping |-> << >>, out_neighbors |-> << >>,
             in_neighbors |-> << >>, num_edges |-> 0, sample_num |-> 0]
\* carry_out_best_merges is not running
NoCommit == [bestMerges |-> << >>, block_map |-> << >>, num_merge |-> 0, counter |-> 0]
NoUpdates == [block_row |-> << >>, proposal_row |-> << >>,
              block_col |-> << >>, proposal_col |-> << >>]

(***************************************************************************)
(* Neighbour-block counts of the vertex phase: the blocks of ni's          *)
(* neighbours (np.unique) and the weight towards each (np.bincount).       *)
(***************************************************************************)
RECURSIVE NeighborBlocks(_, _)
NeighborBlocks(nbrs, b) ==
    IF nbrs = << >> THEN {}
    ELSE {b[Head(nbrs)[1]]} \cup NeighborBlocks(Tail(nbrs), b)

NeighborCounts(nbrs, b) ==
    [t \in NeighborBlocks(nbrs, b) |-> BlockWeight(nbrs, b, t)]

\* np.sum(out_neighbors[ni][np.where(out_neighbors[ni][:, 0] == ni), 1])
RECURSIVE SelfEdgeWeight(_, _)
SelfEdgeWeight(nbrs, v) ==
    IF nbrs = << >> THEN 0
    ELSE (IF Head(nbrs)[1] = v THEN Head(nbrs)[2] ELSE 0)
         + SelfEdgeWeight(Tail(nbrs), v)

(***************************************************************************)
(* Merge phase inputs, dense path: outgoing_edges / incoming_edges return  *)
(* np.asarray((ids, weights)), an array of shape (2, n): the ids of the    *)
(* nonzero entries of the block's row / column of M in ascending order,    *)
(* then the entries.                                                       *)
(***************************************************************************)
outgoing_edges(M, block, B) ==
    LET out_blocks == SortedSeq({j \in Blocks(B) : M[block][j] # 0})
    IN << out_blocks, [i \in 1 .. Len(out_blocks) |-> M[block][out_blocks[i]]] >>

incoming_edges(M, block, B) ==
    LET in_blocks == SortedSeq({i \in Blocks(B) : M[i][block] # 0})
    IN << in_blocks, [i \in 1 .. Len(in_blocks) |-> M[in_blocks[i]][block]] >>

\* b_out = out_blocks[0], count_out = out_blocks[1] as the kernel reads them:
\* the count at each listed block
CountsOf(edges) ==
    [t \in {edges[1][i] : i \in 1 .. Len(edges[1])} |->
        LET i == CHOOSE x \in 1 .. Len(edges[1]) : edges[1][x] = t IN edges[2][i]]

(***************************************************************************)
(* Edge-count update kernels.  b_out/b_in are the DOMAINs of count_out /   *)
(* count_in; CountAt is np.sum(count[np.where(b == t)]).                   *)
(***************************************************************************)
CountAt(count, t) == IF t \in DOMAIN count THEN count[t] ELSE 0

\* x[idx] += delta, on one index
AddAt(x, idx, delta) == [x EXCEPT ![idx] = @ + delta]

\* the proposal_row / proposal_col arithmetic shared by both kernels
ProposalVector(start, r, s, count_same, count_other, count_self, B) ==
    LET v1 == [t \in Blocks(B) |-> start[t] + CountAt(count_same, t)]
        v2 == AddAt(v1, r, 0 - CountAt(count_other, s))
        v3 == AddAt(v2, s, CountAt(count_other, s))
        v4 == AddAt(v3, r, 0 - count_self)
    IN AddAt(v4, s, count_self)

\* the block_row / block_col arithmetic of the vertex kernel
BlockVector(start, r, s, count_same, count_other, B) ==
    LET v1 == [t \in Blocks(B) |-> start[t] - CountAt(count_same, t)]
        v2 == AddAt(v1, r, 0 - CountAt(count_other, r))
    IN AddAt(v2, s, CountAt(count_other, r))

RowOf(M, i, B) == [t \in Blocks(B) |-> M[i][t]]
ColOf(M, j, B) == [t \in Blocks(B) |-> M[t][j]]

vertex_reassign_edge_count_updates(M, r, s, count_out, count_in, count_self, B) ==
    [block_row |-> BlockVector(RowOf(M, r, B), r, s, count_out, count_in, B),
     block_col |-> BlockVector(ColOf(M, r, B), r, s, count_in, count_out, B),
     proposal_row |-> ProposalVector(RowOf(M, s, B), r, s, count_out, count_in, count_self, B),
     proposal_col |-> ProposalVector(ColOf(M, s, B), r, s, count_in, count_out, count_self, B)]

\* the merge kernel without the count_self terms
merge_updates_without_self(M, r, s, count_out, count_in, count_self, B) ==
    [block_row |-> [t \in Blocks(B) |-> 0],
     block_col |-> [t \in Blocks(B) |-> 0],
     proposal_row |-> ProposalVector(RowOf(M, s, B), r, s, count_out, count_in, 0, B),
     proposal_col |-> ProposalVector(ColOf(M, s, B), r, s, count_in, count_out, 0, B)]

block_merge_edge_count_updates(M, r, s, count_out, count_in, count_self, B) ==
    [block_row |-> [t \in Blocks(B) |-> 0],
     block_col |-> [t \in Blocks(B) |-> 0],
     proposal_row |-> ProposalVector(RowOf(M, s, B), r, s, count_out, count_in, count_self, B),
     proposal_col |-> ProposalVector(ColOf(M, s, B), r, s, count_in, count_out, count_self, B)]

(***************************************************************************)
(* compute_new_block_degrees: new_d[r] -= degree; new_d[s] += degree.      *)
(***************************************************************************)
\* the degree added at s and not taken from r
NewDegreeAdded(old, r, s, degree) == AddAt(old, s, degree)

NewDegree(old, r, s, degree) == AddAt(AddAt(old, r, 0 - degree), s, degree)

compute_new_block_degrees(r, s, dout, din, d, k_out, k_in, k) ==
    [d_out |-> NewDegree(dout, r, s, k_out),
     d_in |-> NewDegree(din, r, s, k_in),
     d |-> NewDegree(d, r, s, k)]

(***************************************************************************)
(* update_partition, dense path: row r, row s, column r, column s are      *)
(* written in this order, a later write overwriting an earlier one on the  *)
(* cells they share.                                                       *)
(***************************************************************************)
SetRow(M, i, row, B) == [M EXCEPT ![i] = [t \in Blocks(B) |-> row[t]]]
SetCol(M, j, col, B) == [i \in Blocks(B) |-> [M[i] EXCEPT ![j] = col[i]]]

UpdatedEdgeCounts(M, r, s, upd, B) ==
    SetCol(SetCol(SetRow(SetRow(M, r, upd.block_row, B), s, upd.proposal_row, B),
                  r, upd.block_col, B),
           s, upd.proposal_col, B)

(***************************************************************************)
(* Proposal kernel.  A random draw is a choice among the outcomes of       *)
(* positive probability; an outcome is a returned block or an exception    *)
(* raised by numpy (a draw from an empty or invalid distribution).         *)
(***************************************************************************)
\* path of a draw: "zero_degree", "random" (uniform block), "neighbor"
\* (multinomial over the neighbours of u) or "fallback" (u has no neighbour
\* but r)
Raised(path) == [raised |-> TRUE, s |-> 0, path |-> path]
Returned(s, path) == [raised |-> FALSE, s |-> s, path |-> path]

\* the candidates propose_random_block draws from, uniformly
propose_random_block(current_block, B, agg_move) ==
    IF agg_move THEN Blocks(B) \ {current_block} ELSE Blocks(B)

RandomBlockOutcomes(current_block, B, agg_move, path) ==
    LET candidates == propose_random_block(current_block, B, agg_move)
    IN IF candidates = {} THEN {Raised(path)}
       ELSE {Returned(s, path) : s \in candidates}

MaxOf(S) == CHOOSE x \in S : \A y \in S : y <= x

\* candidates[flatnonzero(np.random.multinomial(1, pvals[candidates]))[0]]
\* with pvals[t] = num[t] / den
MultinomialOutcomes(num, den, B) ==
    LET candidates == {t \in Blocks(B) : num[t] # 0}
        last == MaxOf(candidates)
        head_sum == SumOver(num, candidates \ {last})
        invalid == \/ \E t \in candidates : num[t] * den < 0
                   \/ \E t \in candidates : (num[t] - den) * den > 0
                   \/ (head_sum - den) * den > 0
    IN IF candidates = {} \/ invalid THEN {Raised("neighbor")}
       ELSE {Returned(t, "neighbor") : t \in candidates \ {last}}
            \cup (IF head_sum # den THEN {Returned(last, "neighbor")} ELSE {})

\* the outcomes of the draw of s once the block u of the random neighbour is known
NeighborBlockOutcomes(r, u, M, d, B, agg_move) ==
    LET prob == [t \in Blocks(B) |-> M[u][t] + M[t][u]]
        masked == [prob EXCEPT ![r] = 0]
        mass == SumOver(masked, Blocks(B))
        drawn == IF agg_move
                 THEN IF mass = 0
                      THEN (IF Blocks(B) \ {r} = {} THEN {Raised("fallback")}
                            ELSE {Returned(s, "fallback") : s \in Blocks(B) \ {r}})
                      ELSE MultinomialOutcomes(masked, mass, B)
                 ELSE MultinomialOutcomes(prob, d[u], B)
    IN RandomBlockOutcomes(r, B, agg_move, "random")
       \cup (IF d[u] > 0 THEN drawn ELSE {})

\* shape[1] of a two-dimensional array; an array without rows is a
\* neighbour array of the graph, of shape (0, 2)
NumCols(arr) == IF arr = << >> THEN 2 ELSE Len(arr[1])

\* sum(arr[:, j]), j counted from 0
RECURSIVE SumColumn(_, _)
SumColumn(arr, j) ==
    IF arr = << >> THEN 0 ELSE Head(arr)[j + 1] + SumColumn(Tail(arr), j)

\* numpy indexing with a negative index counts from the end
PyIndex(i, len) == IF i < 0 THEN i + len ELSE i

\* path "arrays": np.concatenate or neighbors_out[:, 1] raises;
\* path "choice": the draw of rand_neighbor or b[rand_neighbor] raises
propose_new_partition(r, neighbors_out, neighbors_in, b, M, d, B, agg_move) ==
    LET neighbors == neighbors_out \o neighbors_in
        k_out == SumColumn(neighbors_out, 1)
        k_in == SumColumn(neighbors_in, 1)
        k == k_out + k_in
        \* np.random.choice(neighbors[:, 0], p=neighbors[:, 1] / float(k))
        \* raises on a negative probability
        invalid_p == \E i \in 1 .. Len(neighbors) : neighbors[i][2] * k < 0
        drawn == {neighbors[i][1] : i \in {x \in 1 .. Len(neighbors) : neighbors[x][2] # 0}}
        U(rand_neighbor) == PyIndex(rand_neighbor, Cardinality(DOMAIN b))
        outcomes ==
            IF k = 0 THEN RandomBlockOutcomes(r, B, agg_move, "zero_degree")
            ELSE IF invalid_p THEN {Raised("choice")}
            ELSE UNION {IF U(rand_neighbor) \in DOMAIN b
                        THEN NeighborBlockOutcomes(r, b[U(rand_neighbor)], M, d, B, agg_move)
                        ELSE {Raised("choice")}
                        : rand_neighbor \in drawn}
    IN IF NumCols(neighbors_out) # NumCols(neighbors_in) \/ NumCols(neighbors_out) < 2
       THEN {[raised |-> TRUE, s |-> 0, path |-> "arrays",
              k_out |-> 0, k_in |-> 0, k |-> 0]}
       ELSE {[raised |-> o.raised, s |-> o.s, path |-> o.path,
              k_out |-> k_out, k_in |-> k_in, k |-> k] : o \in outcomes}

(***************************************************************************)
(* carry_out_best_merges.                                                  *)
(***************************************************************************)
\* delta_entropy_for_each_block.argsort(): any order of the blocks by
\* ascending delta entropy (the order among equal keys is unspecified)
ArgSorts(delta, B) ==
    {p \in [1 .. B -> Blocks(B)] :
        /\ \A i, j \in 1 .. B : i # j => p[i] # p[j]
        /\ \A i, j \in 1 .. B : i < j => delta[p[i]] <= delta[p[j]]}

RECURSIVE MergeLoop(_, _, _, _, _, _, _)
MergeLoop(bestMerges, best, target, block_map, b, num_merge, counter) ==
    IF num_merge >= target THEN [raised |-> FALSE, b |-> b, counter |-> counter]
    ELSE IF counter >= Len(bestMerges)
    THEN [raised |-> TRUE, b |-> b, counter |-> counter]   \* IndexError
    ELSE LET mergeFrom == bestMerges[counter + 1]
             mergeTo == block_map[PyIndex(best[mergeFrom], Len(bestMerges))]
         IN IF mergeTo # mergeFrom
            THEN MergeLoop(bestMerges, best, target,
                           [x \in DOMAIN block_map |->
                               IF block_map[x] = mergeFrom THEN mergeTo ELSE block_map[x]],
                           [v \in DOMAIN b |-> IF b[v] = mergeFrom THEN mergeTo ELSE b[v]],
                           num_merge + 1, counter + 1)
            ELSE MergeLoop(bestMerges, best, target, block_map, b, num_merge, counter + 1)

\* the assignment with the ids the merges left, not renumbered
NotCompacted(b) == b

\* the renumbering read at the vertex's own id instead of at its label
CompactedByVertex(b) ==
    LET remaining_blocks == {b[v] : v \in DOMAIN b}
    IN [v \in DOMAIN b |-> Cardinality({y \in remaining_blocks : y < v})]

\* mapping[remaining_blocks] = np.arange(len(remaining_blocks))
Compacted(b) ==
    LET remaining_blocks == {b[v] : v \in DOMAIN b}
    IN [v \in DOMAIN b |-> Cardinality({y \in remaining_blocks : y < b[v]})]

carry_out_best_merges(bestMerges, best, b, B, target) ==
    LET loop == MergeLoop(bestMerges, best, target, [x \in Blocks(B) |-> x], b, 0, 0)
    IN IF loop.raised
       THEN [raised |-> TRUE, block_assignment |-> loop.b, num_blocks |-> B,
             counter |-> loop.counter]
       ELSE [raised |-> FALSE, block_assignment |-> Compacted(loop.b),
             num_blocks |-> B - target, counter |-> loop.counter]

(***************************************************************************)
(* The run: the vertex phase sweeps the vertices in ascending order and    *)
(* commits the accepted moves, the driver schedules num_blocks_to_merge,   *)
(* merge_blocks scores one proposal at a time and commits the best merges, *)
(* and the next vertex phase follows, until nothing is left to merge.  The *)
(* run starts from the one-block-per-vertex partition or from a warm       *)
(* start: B blocks, each with at least one vertex, counts initialised      *)
(* from the graph.                                                         *)
(***************************************************************************)
\* block-reduction rates of the configuration, numerator over denominator
B_rates == { <<1, 4>>, <<1, 2>>, <<3, 4>> }

\* num_blocks * B_rate rounded up
BlocksAtRateUp(B, B_rate) == (B * B_rate[1] + B_rate[2] - 1) \div B_rate[2]

\* int(num_blocks * B_rate)
BlocksAtRate(B, B_rate) == (B * B_rate[1]) \div B_rate[2]

\* np.Inf, above every delta entropy
Inf == MaxDelta + 1

\* an empty place of the triplet; a snapshot is what the search reads of a
\* partition: num_blocks, overall_entropy, num_blocks_to_merge
None == [num_blocks |-> 0, overall_entropy |-> 0, num_blocks_to_merge |-> 0]

\* the three places of the triplet: 0 the most blocks, 1 the best, 2 the fewest
Triple(hi, mid, lo) == [i \in 0 .. 2 |-> IF i = 0 THEN hi ELSE IF i = 1 THEN mid ELSE lo]

NoTriplet == [partitions |-> Triple(None, None, None), optimal_num_blocks_found |-> FALSE]

\* the two phases on their own: no search state; the driver step of these
\* specifications draws its rate from B_rates
SearchIdle ==
    /\ block_reduction_rate = <<0, 1>>
    /\ overall_entropy = 0
    /\ move_delta_entropy = 0
    /\ partition_triplet = NoTriplet

partitionVars == <<num_blocks, block_assignment, interblock_edge_count,
                   block_degrees_out, block_degrees_in, block_degrees>>
mergeVars == <<best_merge_for_each_block, delta_entropy_for_each_block>>

ProposalRecord(kind, ni, r, o) ==
    [kind |-> kind, ni |-> ni, r |-> r, s |-> o.s, path |-> o.path,
     k_out |-> o.k_out, k_in |-> o.k_in, k |-> o.k]

\* a partition of the graph's N vertices into B non-empty blocks, its counts
\* initialised
PartitionInit(N) ==
    /\ num_blocks \in 1 .. N
    /\ block_assignment \in {b \in [VerticesOf(N) -> Blocks(num_blocks)] :
                                \A t \in Blocks(num_blocks) : \E v \in VerticesOf(N) : b[v] = t}
    /\ LET counts == initialize_edge_counts(graph.out_neighbors, block_assignment,
                                            num_blocks)
       IN /\ interblock_edge_count = counts.M
          /\ block_degrees_out = counts.d_out
          /\ block_degrees_in = counts.d_in
          /\ block_degrees = counts.d

Init ==
    /\ graph \in {load_graph(rows, NumVertices) : rows \in EdgeFiles}
    /\ max_num_nodal_itr = 1
    /\ PartitionInit(NumVertices)
    /\ num_blocks_to_merge = 0
    /\ phase \in {"prepare", "mcmc"}
    /\ cursor = 0
    /\ iteration = 0
    /\ best_merge_for_each_block = << >>
    /\ delta_entropy_for_each_block = << >>
    /\ proposal = NoProposal
    /\ before_merge = NoMerge
    /\ edge_count_updates = NoUpdates
    /\ commit = NoCommit
    /\ edge_files = << >>
    /\ sample = NoSample
    /\ SearchIdle

\* the driver step on a partition that is the best so far and has no lower
\* snapshot yet: num_blocks_to_merge = int(num_blocks * B_rate); 0 ends the run.
\* merge_blocks follows at once, and its score arrays are initialised here
prepare_for_partition_on_next_num_blocks ==
    /\ phase = "prepare"
    /\ \E B_rate \in B_rates :
          LET to_merge == BlocksAtRate(num_blocks, B_rate)
          IN /\ num_blocks_to_merge' = to_merge
             /\ phase' = IF to_merge = 0 THEN "done" ELSE "merge"
    /\ cursor' = 0
    /\ iteration' = 0
    /\ best_merge_for_each_block' = [x \in Blocks(num_blocks) |-> 0 - 1]
    /\ delta_entropy_for_each_block' = [x \in Blocks(num_blocks) |-> Inf]
    /\ proposal' = NoProposal
    /\ edge_count_updates' = NoUpdates
    /\ before_merge' = NoMerge
    /\ UNCHANGED <<graph, edge_files, sample, max_num_nodal_itr, commit, searchVars, partitionVars>>

\* the kernel writes the proposal's row and column into the matrix itself
WrittenInPlace(M, s, updates, B) ==
    SetCol(SetRow(M, s, updates.proposal_row, B), s, updates.proposal_col, B)

\* the matrix after block_merge_edge_count_updates: the kernel fills new
\* arrays and copies of row s and column s (M[s, :].copy(), M[:, s].copy())
MatrixAfterMergeUpdates(M, s, updates, B) == M

\* one pass of the inner loop of merge_blocks.  compute_delta_entropy is
\* floating-point arithmetic on the update: its result is a rank 0 .. MaxDelta,
\* or a value that does not compare below the best so far (inf, nan)
propose_merge ==
    /\ phase = "merge"
    /\ cursor < num_blocks * num_agg_proposals_per_block
    /\ LET current_block == cursor \div num_agg_proposals_per_block
           out_blocks == outgoing_edges(interblock_edge_count, current_block, num_blocks)
           in_blocks == incoming_edges(interblock_edge_count, current_block, num_blocks)
       IN \E o \in propose_new_partition(current_block, out_blocks, in_blocks,
                                         [x \in Blocks(num_blocks) |-> x],
                                         interblock_edge_count, block_degrees,
                                         num_blocks, TRUE) :
            IF o.raised
            THEN /\ phase' = "error"
                 /\ proposal' = ProposalRecord("merge_raised", current_block, current_block, o)
                 /\ UNCHANGED <<cursor, mergeVars, edge_count_updates,
                                interblock_edge_count>>
            ELSE /\ proposal' = ProposalRecord("merge", current_block, current_block, o)
                 /\ LET updates == block_merge_edge_count_updates(
                                       interblock_edge_count, current_block, o.s,
                                       CountsOf(out_blocks), CountsOf(in_blocks),
                                       interblock_edge_count[current_block][current_block],
                                       num_blocks)
                    IN /\ edge_count_updates' = updates
                       /\ interblock_edge_count' =
                              MatrixAfterMergeUpdates(interblock_edge_count, o.s,
                                                      updates, num_blocks)
                 /\ \E delta_entropy \in 0 .. Inf :
                       IF delta_entropy < delta_entropy_for_each_block[current_block]
                       THEN /\ best_merge_for_each_block' =
                                  [best_merge_for_each_block EXCEPT ![current_block] = o.s]
                            /\ delta_entropy_for_each_block' =
                                  [delta_entropy_for_each_block EXCEPT
                                      ![current_block] = delta_entropy]
                       ELSE UNCHANGED mergeVars
                 /\ cursor' = cursor + 1
                 /\ UNCHANGED phase
    /\ UNCHANGED <<graph, edge_files, sample, max_num_nodal_itr, commit, searchVars, num_blocks, block_assignment,
                   block_degrees_out, block_degrees_in, block_degrees,
                   num_blocks_to_merge, iteration, before_merge>>

\* the tail of merge_blocks: carry_out_best_merges, then initialize_edge_counts;
\* the score arrays are locals of merge_blocks and end with it
merge_blocks ==
    /\ phase = "merge"
    /\ cursor = num_blocks * num_agg_proposals_per_block
    /\ \E merged \in {carry_out_best_merges(bestMerges, best_merge_for_each_block,
                                             block_assignment, num_blocks,
                                             num_blocks_to_merge)
                        : bestMerges \in ArgSorts(delta_entropy_for_each_block,
                                                  num_blocks)} :
          LET counts == initialize_edge_counts(graph.out_neighbors,
                                               merged.block_assignment, merged.num_blocks)
          IN /\ block_assignment' = merged.block_assignment
             /\ num_blocks' = merged.num_blocks
             /\ IF merged.raised
                THEN /\ phase' = "error"
                     /\ proposal' = [NoProposal EXCEPT !.kind = "index_error"]
                     /\ UNCHANGED <<interblock_edge_count, block_degrees_out,
                                    block_degrees_in, block_degrees, mergeVars>>
                ELSE /\ phase' = "mcmc"
                     /\ proposal' = [NoProposal EXCEPT !.kind = "merged"]
                     /\ interblock_edge_count' = counts.M
                     /\ block_degrees_out' = counts.d_out
                     /\ block_degrees_in' = counts.d_in
                     /\ block_degrees' = counts.d
                     /\ best_merge_for_each_block' = << >>
                     /\ delta_entropy_for_each_block' = << >>
    /\ cursor' = 0
    /\ before_merge' = [block_assignment |-> block_assignment, num_blocks |-> num_blocks]
    /\ edge_count_updates' = NoUpdates
    /\ UNCHANGED <<graph, edge_files, sample, max_num_nodal_itr, commit, searchVars, num_blocks_to_merge, iteration>>

\* after vertex ni: the next vertex, the next sweep, or the end of the phase
NextVertex ==
    IF cursor + 1 < graph.num_nodes
    THEN /\ cursor' = cursor + 1
         /\ UNCHANGED <<phase, iteration>>
    ELSE /\ cursor' = 0
         /\ iteration' = iteration + 1
         /\ phase' \in (IF iteration + 1 < max_num_nodal_itr THEN {"mcmc", "prepare"}
                        ELSE {"prepare"})

\* the proposals for the vertex the sweep is at
VertexProposals ==
    propose_new_partition(block_assignment[cursor], graph.out_neighbors[cursor],
                          graph.in_neighbors[cursor], block_assignment,
                          interblock_edge_count, block_degrees, num_blocks, FALSE)

\* the update of moving vertex ni to block s
VertexUpdatesOf(ni, s) ==
    vertex_reassign_edge_count_updates(
        interblock_edge_count, block_assignment[ni], s,
        NeighborCounts(graph.out_neighbors[ni], block_assignment),
        NeighborCounts(graph.in_neighbors[ni], block_assignment),
        SelfEdgeWeight(graph.out_neighbors[ni], ni), num_blocks)

VertexUpdates(s) == VertexUpdatesOf(cursor, s)

\* the proposal raises
vertex_raise ==
    /\ phase = "mcmc"
    /\ \E o \in VertexProposals :
          /\ o.raised
          /\ proposal' = ProposalRecord("vertex_raised", cursor, block_assignment[cursor], o)
    /\ phase' = "error"
    /\ UNCHANGED <<graph, edge_files, sample, max_num_nodal_itr, commit, searchVars, partitionVars, num_blocks_to_merge, cursor, iteration,
                   mergeVars, before_merge, edge_count_updates>>

\* the proposal is the current block: nothing to do
vertex_skip ==
    /\ phase = "mcmc"
    /\ \E o \in VertexProposals :
          /\ ~o.raised
          /\ o.s = block_assignment[cursor]
          /\ proposal' = ProposalRecord("skip", cursor, block_assignment[cursor], o)
    /\ NextVertex
    /\ UNCHANGED <<graph, edge_files, sample, max_num_nodal_itr, commit, searchVars, partitionVars, num_blocks_to_merge, mergeVars, before_merge,
                   edge_count_updates>>

\* the move is scored and rejected
vertex_reject ==
    /\ phase = "mcmc"
    /\ \E o \in VertexProposals :
          /\ ~o.raised
          /\ o.s # block_assignment[cursor]
          /\ proposal' = ProposalRecord("reject", cursor, block_assignment[cursor], o)
          /\ edge_count_updates' = VertexUpdates(o.s)
    /\ NextVertex
    /\ UNCHANGED <<graph, edge_files, sample, max_num_nodal_itr, commit, searchVars, partitionVars, num_blocks_to_merge, mergeVars, before_merge>>

\* vertex ni goes to block s: the assignment, update_partition on M with the
\* kernel's vectors, and the degrees of compute_new_block_degrees
CommitMove(ni, s, upd, k_out, k_in, k) ==
    LET r == block_assignment[ni]
        new == compute_new_block_degrees(r, s, block_degrees_out, block_degrees_in,
                                         block_degrees, k_out, k_in, k)
    IN /\ edge_count_updates' = upd
       /\ block_assignment' = [block_assignment EXCEPT ![ni] = s]
       /\ interblock_edge_count' =
              UpdatedEdgeCounts(interblock_edge_count, r, s, upd, num_blocks)
       /\ block_degrees_out' = new.d_out
       /\ block_degrees_in' = new.d_in
       /\ block_degrees' = new.d

\* the move is scored and accepted: update_partition commits it
update_partition ==
    /\ phase = "mcmc"
    /\ \E o \in VertexProposals :
          /\ ~o.raised
          /\ o.s # block_assignment[cursor]
          /\ proposal' = ProposalRecord("move", cursor, block_assignment[cursor], o)
          /\ CommitMove(cursor, o.s, VertexUpdates(o.s), o.k_out, o.k_in, o.k)
    /\ NextVertex
    /\ UNCHANGED <<graph, edge_files, sample, max_num_nodal_itr, commit, searchVars, num_blocks, num_blocks_to_merge, mergeVars, before_merge>>

Next ==
    \/ prepare_for_partition_on_next_num_blocks
    \/ propose_merge
    \/ merge_blocks
    \/ vertex_raise
    \/ vertex_skip
    \/ vertex_reject
    \/ update_partition

Spec == Init /\ [][Next]_vars

\* the same run on the dense graphs of MergeVertices vertices, where every
\* block has as many out-neighbour blocks as in-neighbour blocks
InitMerge ==
    /\ graph \in {load_graph(DenseRows(MergeVertices, loops), MergeVertices)
                   : loops \in BOOLEAN}
    /\ max_num_nodal_itr = 1
    /\ PartitionInit(MergeVertices)
    /\ num_blocks_to_merge = 0
    /\ phase = "prepare"
    /\ cursor = 0
    /\ iteration = 0
    /\ best_merge_for_each_block = << >>
    /\ delta_entropy_for_each_block = << >>
    /\ proposal = NoProposal
    /\ before_merge = NoMerge
    /\ edge_count_updates = NoUpdates
    /\ commit = NoCommit
    /\ edge_files = << >>
    /\ sample = NoSample
    /\ SearchIdle

SpecMerge == InitMerge /\ [][Next]_vars

\* the same run on the dense graphs of NumVertices vertices, with up to
\* MaxIterations sweeps in a vertex phase
InitDense ==
    /\ graph \in {load_graph(DenseRows(NumVertices, loops), NumVertices)
                   : loops \in BOOLEAN}
    /\ max_num_nodal_itr \in 1 .. MaxIterations
    /\ PartitionInit(NumVertices)
    /\ num_blocks_to_merge = 0
    /\ phase \in {"prepare", "mcmc"}
    /\ cursor = 0
    /\ iteration = 0
    /\ best_merge_for_each_block = << >>
    /\ delta_entropy_for_each_block = << >>
    /\ proposal = NoProposal
    /\ before_merge = NoMerge
    /\ edge_count_updates = NoUpdates
    /\ commit = NoCommit
    /\ edge_files = << >>
    /\ sample = NoSample
    /\ SearchIdle

SpecDense == InitDense /\ [][Next]_vars

(***************************************************************************)
(* merge_blocks on its own: called on any partition with initialised       *)
(* counts, a single block included, with the number of blocks to merge the *)
(* driver step schedules for it at one of the rates.                       *)
(***************************************************************************)
InitPass ==
    /\ graph \in {load_graph(rows, NumVertices) : rows \in EdgeFiles}
                 \cup {load_graph(DenseRows(NumVertices, loops), NumVertices)
                          : loops \in BOOLEAN}
    /\ max_num_nodal_itr = 1
    /\ PartitionInit(NumVertices)
    /\ num_blocks_to_merge \in {BlocksAtRate(num_blocks, B_rate) : B_rate \in B_rates}
    /\ phase = "merge"
    /\ cursor = 0
    /\ iteration = 0
    /\ best_merge_for_each_block = [x \in Blocks(num_blocks) |-> 0 - 1]
    /\ delta_entropy_for_each_block = [x \in Blocks(num_blocks) |-> Inf]
    /\ proposal = NoProposal
    /\ before_merge = NoMerge
    /\ edge_count_updates = NoUpdates
    /\ commit = NoCommit
    /\ edge_files = << >>
    /\ sample = NoSample
    /\ SearchIdle

SpecPass == InitPass /\ [][Next]_vars

(***************************************************************************)
(* The vertex-move kernel on its own: from any partition with initialised  *)
(* counts, vertex_reassign_edge_count_updates is called for any vertex ni  *)
(* and any block s of [0, B), the current block of ni included, and its    *)
(* result is committed by compute_new_block_degrees and update_partition.  *)
(***************************************************************************)
InitKernel ==
    /\ graph \in {load_graph(rows, NumVertices) : rows \in EdgeFiles}
    /\ max_num_nodal_itr = 1
    /\ PartitionInit(NumVertices)
    /\ num_blocks_to_merge = 0
    /\ phase = "kernel"
    /\ cursor = 0
    /\ iteration = 0
    /\ best_merge_for_each_block = << >>
    /\ delta_entropy_for_each_block = << >>
    /\ proposal = NoProposal
    /\ before_merge = NoMerge
    /\ edge_count_updates = NoUpdates
    /\ commit = NoCommit
    /\ edge_files = << >>
    /\ sample = NoSample
    /\ SearchIdle

reassign_vertex ==
    /\ phase = "kernel"
    /\ \E ni \in VerticesOf(graph.num_nodes), s \in Blocks(num_blocks) :
          LET k_out == SumColumn(graph.out_neighbors[ni], 1)
              k_in == SumColumn(graph.in_neighbors[ni], 1)
          IN /\ proposal' = [kind |-> "kernel", ni |-> ni, r |-> block_assignment[ni],
                             s |-> s, path |-> "none",
                             k_out |-> k_out, k_in |-> k_in, k |-> k_out + k_in]
             /\ CommitMove(ni, s, VertexUpdatesOf(ni, s), k_out, k_in, k_out + k_in)
    /\ phase' = "applied"
    /\ UNCHANGED <<graph, edge_files, sample, max_num_nodal_itr, commit, searchVars, num_blocks, num_blocks_to_merge, cursor, iteration,
                   mergeVars, before_merge>>

NextKernel == reassign_vertex

SpecKernel == InitKernel /\ [][NextKernel]_vars

(***************************************************************************)
(* The merge kernel on its own: from any partition with initialised        *)
(* counts, propose_merge's call of block_merge_edge_count_updates for any  *)
(* block r and any other block s, with the arguments propose_merge passes: *)
(* out_blocks[0], out_blocks[1], in_blocks[0], in_blocks[1] and M[r, r].   *)
(***************************************************************************)
InitMergeKernel ==
    /\ graph \in {load_graph(rows, NumVertices) : rows \in EdgeFiles}
                 \cup {load_graph(DenseRows(NumVertices, loops), NumVertices)
                          : loops \in BOOLEAN}
    /\ max_num_nodal_itr = 1
    /\ PartitionInit(NumVertices)
    /\ num_blocks_to_merge = 0
    /\ phase = "kernel"
    /\ cursor = 0
    /\ iteration = 0
    /\ best_merge_for_each_block = << >>
    /\ delta_entropy_for_each_block = << >>
    /\ proposal = NoProposal
    /\ before_merge = NoMerge
    /\ edge_count_updates = NoUpdates
    /\ commit = NoCommit
    /\ edge_files = << >>
    /\ sample = NoSample
    /\ SearchIdle

merge_edge_count_updates ==
    /\ phase = "kernel"
    /\ \E r \in Blocks(num_blocks) : \E s \in Blocks(num_blocks) \ {r} :
          LET out_blocks == outgoing_edges(interblock_edge_count, r, num_blocks)
              in_blocks == incoming_edges(interblock_edge_count, r, num_blocks)
          IN /\ proposal' = [NoProposal EXCEPT !.kind = "merge_kernel", !.ni = r,
                                               !.r = r, !.s = s]
             /\ edge_count_updates' =
                    block_merge_edge_count_updates(
                        interblock_edge_count, r, s,
                        CountsOf(out_blocks), CountsOf(in_blocks),
                        interblock_edge_count[r][r], num_blocks)
    /\ phase' = "applied"
    /\ UNCHANGED <<graph, edge_files, sample, max_num_nodal_itr, commit, searchVars, partitionVars,
                   num_blocks_to_merge, cursor, iteration, mergeVars, before_merge>>

NextMergeKernel == merge_edge_count_updates

SpecMergeKernel == InitMergeKernel /\ [][NextMergeKernel]_vars

(***************************************************************************)
(* carry_out_best_merges on its own, one pass of its while loop at a time: *)
(* called on any assignment of MergeVertices vertices to B blocks (a block *)
(* may be empty), with the score arrays merge_blocks can have left: a      *)
(* block's best merge is another block with a finite delta entropy, or -1  *)
(* with the initial Inf.  The vertices are numbered by ascending block.    *)
(***************************************************************************)
\* one pass with the recorded target taken as it is, not through block_map
MergeStepUnresolved(bestMerges, best, block_map, b, num_merge, counter) ==
    LET mergeFrom == bestMerges[counter + 1]
        mergeTo == PyIndex(best[mergeFrom], Len(bestMerges))
    IN IF mergeTo # mergeFrom
       THEN [block_map |-> [x \in DOMAIN block_map |->
                               IF block_map[x] = mergeFrom THEN mergeTo ELSE block_map[x]],
             b |-> [v \in DOMAIN b |-> IF b[v] = mergeFrom THEN mergeTo ELSE b[v]],
             num_merge |-> num_merge + 1, counter |-> counter + 1]
       ELSE [block_map |-> block_map, b |-> b,
             num_merge |-> num_merge, counter |-> counter + 1]

\* one pass that merges only into a target that has not been merged away
MergeStepLiveTargets(bestMerges, best, block_map, b, num_merge, counter) ==
    LET mergeFrom == bestMerges[counter + 1]
        target == PyIndex(best[mergeFrom], Len(bestMerges))
        mergeTo == block_map[target]
    IN IF mergeTo # mergeFrom /\ mergeTo = target
       THEN [block_map |-> [x \in DOMAIN block_map |->
                               IF block_map[x] = mergeFrom THEN mergeTo ELSE block_map[x]],
             b |-> [v \in DOMAIN b |-> IF b[v] = mergeFrom THEN mergeTo ELSE b[v]],
             num_merge |-> num_merge + 1, counter |-> counter + 1]
       ELSE [block_map |-> block_map, b |-> b,
             num_merge |-> num_merge, counter |-> counter + 1]

\* one pass of the while loop, bestMerges[counter] in range
MergeStep(bestMerges, best, block_map, b, num_merge, counter) ==
    LET mergeFrom == bestMerges[counter + 1]
        mergeTo == block_map[PyIndex(best[mergeFrom], Len(bestMerges))]
    IN IF mergeTo # mergeFrom
       THEN [block_map |-> [x \in DOMAIN block_map |->
                               IF block_map[x] = mergeFrom THEN mergeTo ELSE block_map[x]],
             b |-> [v \in DOMAIN b |-> IF b[v] = mergeFrom THEN mergeTo ELSE b[v]],
             num_merge |-> num_merge + 1, counter |-> counter + 1]
       ELSE [block_map |-> block_map, b |-> b,
             num_merge |-> num_merge, counter |-> counter + 1]

\* what merge_blocks can hand over for B blocks
ScoreArrays(B) ==
    {scores \in [Blocks(B) -> [best : {0 - 1} \cup Blocks(B), delta : 0 .. Inf]] :
        \A x \in Blocks(B) :
            \/ scores[x].best = 0 - 1 /\ scores[x].delta = Inf
            \/ scores[x].best \notin {0 - 1, x} /\ scores[x].delta < Inf}

InitCommit ==
    /\ graph = load_graph(<< >>, MergeVertices)
    /\ max_num_nodal_itr = 1
    /\ num_blocks \in 1 .. MergeVertices
    /\ block_assignment \in {b \in [VerticesOf(MergeVertices) -> Blocks(num_blocks)] :
                                \A v, w \in VerticesOf(MergeVertices) : v < w => b[v] <= b[w]}
    /\ LET counts == initialize_edge_counts(graph.out_neighbors, block_assignment,
                                            num_blocks)
       IN /\ interblock_edge_count = counts.M
          /\ block_degrees_out = counts.d_out
          /\ block_degrees_in = counts.d_in
          /\ block_degrees = counts.d
    /\ num_blocks_to_merge \in 0 .. num_blocks - 1
    /\ \E scores \in ScoreArrays(num_blocks) :
          /\ best_merge_for_each_block = [x \in Blocks(num_blocks) |-> scores[x].best]
          /\ delta_entropy_for_each_block = [x \in Blocks(num_blocks) |-> scores[x].delta]
    /\ phase = "commit"
    /\ cursor = 0
    /\ iteration = 0
    /\ proposal = NoProposal
    /\ before_merge = [block_assignment |-> block_assignment, num_blocks |-> num_blocks]
    /\ edge_count_updates = NoUpdates
    /\ commit = NoCommit
    /\ edge_files = << >>
    /\ sample = NoSample
    /\ SearchIdle

\* lines 761-764: the order of the candidates and the identity block_map
argsort_merges ==
    /\ phase = "commit"
    /\ \E bestMerges \in ArgSorts(delta_entropy_for_each_block, num_blocks) :
          commit' = [bestMerges |-> bestMerges,
                     block_map |-> [x \in Blocks(num_blocks) |-> x],
                     num_merge |-> 0, counter |-> 0]
    /\ phase' = "commit_loop"
    /\ UNCHANGED <<graph, edge_files, sample, max_num_nodal_itr, searchVars, partitionVars,
                   num_blocks_to_merge, cursor, iteration, mergeVars, proposal,
                   before_merge, edge_count_updates>>

\* lines 765-772: one pass of the loop; bestMerges[counter] past the end
\* raises IndexError
merge_step ==
    /\ phase = "commit_loop"
    /\ commit.num_merge < num_blocks_to_merge
    /\ IF commit.counter >= Len(commit.bestMerges)
       THEN /\ phase' = "error"
            /\ proposal' = [NoProposal EXCEPT !.kind = "index_error"]
            /\ UNCHANGED <<commit, block_assignment>>
       ELSE LET step == MergeStep(commit.bestMerges, best_merge_for_each_block,
                                  commit.block_map, block_assignment,
                                  commit.num_merge, commit.counter)
            IN /\ commit' = [commit EXCEPT !.block_map = step.block_map,
                                           !.num_merge = step.num_merge,
                                           !.counter = step.counter]
               /\ block_assignment' = step.b
               /\ UNCHANGED <<phase, proposal>>
    /\ UNCHANGED <<graph, edge_files, sample, max_num_nodal_itr, searchVars, num_blocks,
                   interblock_edge_count, block_degrees_out, block_degrees_in,
                   block_degrees, num_blocks_to_merge, cursor, iteration, mergeVars,
                   before_merge, edge_count_updates>>

\* lines 773-777: the loop is over; the ids are renumbered and num_blocks
\* is reduced
compact_blocks ==
    /\ phase = "commit_loop"
    /\ commit.num_merge >= num_blocks_to_merge
    /\ block_assignment' = Compacted(block_assignment)
    /\ num_blocks' = num_blocks - num_blocks_to_merge
    /\ phase' = "committed"
    /\ proposal' = [NoProposal EXCEPT !.kind = "committed"]
    /\ UNCHANGED <<graph, edge_files, sample, max_num_nodal_itr, commit, searchVars,
                   interblock_edge_count, block_degrees_out, block_degrees_in,
                   block_degrees, num_blocks_to_merge, cursor, iteration, mergeVars,
                   before_merge, edge_count_updates>>

NextCommit ==
    \/ argsort_merges
    \/ merge_step
    \/ compact_blocks

SpecCommit == InitCommit /\ [][NextCommit]_vars

(***************************************************************************)
(* Graph.load with streaming parts: _load_graph reads part 1 into a new    *)
(* Graph, then each further part into a Graph built on the one loaded so   *)
(* far, which graph.update takes over.  A part is the array read_csv       *)
(* returns: rows <<from, to>> or <<from, to, weight>> with the 1-based ids *)
(* of the file; read_csv raises on a file without rows.                    *)
(***************************************************************************)
MaxParts == 2

EdgeParts ==
    UNION { [1 .. k -> Vertices1 \X Vertices1] \cup
            [1 .. k -> Vertices1 \X Vertices1 \X (1 .. MaxWeight)]
            : k \in 0 .. MaxEdgeRows }

NoGraph == [out_neighbors |-> << >>, in_neighbors |-> << >>, num_nodes |-> 0,
            num_edges |-> 0]

\* edge_rows[:, 0:2].max()
MaxId(edge_rows) ==
    MaxOf({edge_rows[i][1] : i \in 1 .. Len(edge_rows)}
          \cup {edge_rows[i][2] : i \in 1 .. Len(edge_rows)})

\* the rows appended to neighbour list v: [edge_rows[i, other] - 1, weight]
\* for the rows with edge_rows[i, own] - 1 == v, in file order
RECURSIVE Appended(_, _, _, _, _)
Appended(edge_rows, own, other, v, N) ==
    IF edge_rows = << >> THEN << >>
    ELSE LET row == Head(edge_rows)
             edge_weight == IF Len(row) = 3 THEN row[3] ELSE 1
         IN (IF PyIndex(row[own] - 1, N) = v
             THEN << <<row[other] - 1, edge_weight>> >> ELSE << >>)
            \o Appended(Tail(edge_rows), own, other, v, N)

\* _load_graph that starts from empty lists whatever was loaded before
load_graph_part_anew(edge_rows, g) ==
    LET N == MaxId(edge_rows)
        outn == [v \in VerticesOf(N) |-> Appended(edge_rows, 1, 2, v, N)]
    IN [out_neighbors |-> outn,
        in_neighbors |-> [v \in VerticesOf(N) |-> Appended(edge_rows, 2, 1, v, N)],
        num_nodes |-> N, num_edges |-> NumEdgesOf(outn)]

\* _load_graph on the rows of one part, g the graph loaded so far or NoGraph
load_graph_part(edge_rows, g) ==
    LET len == Cardinality(DOMAIN g.out_neighbors)
        N == IF g = NoGraph THEN MaxId(edge_rows)
             ELSE MaxOf({MaxId(edge_rows), len})
        Old(nbrs, v) == IF v < len THEN nbrs[v] ELSE << >>
        outn == [v \in VerticesOf(N) |->
                    Old(g.out_neighbors, v) \o Appended(edge_rows, 1, 2, v, N)]
    IN [out_neighbors |-> outn,
        in_neighbors |-> [v \in VerticesOf(N) |->
                             Old(g.in_neighbors, v) \o Appended(edge_rows, 2, 1, v, N)],
        num_nodes |-> N, num_edges |-> NumEdgesOf(outn)]

InitLoad ==
    /\ edge_files \in UNION {[1 .. parts -> EdgeParts] : parts \in 1 .. MaxParts}
    /\ sample = NoSample
    /\ graph = NoGraph
    /\ max_num_nodal_itr = 1
    /\ num_blocks = 0
    /\ block_assignment = << >>
    /\ interblock_edge_count = << >>
    /\ block_degrees_out = << >>
    /\ block_degrees_in = << >>
    /\ block_degrees = << >>
    /\ num_blocks_to_merge = 0
    /\ phase = "load"
    /\ cursor = 0
    /\ iteration = 0
    /\ best_merge_for_each_block = << >>
    /\ delta_entropy_for_each_block = << >>
    /\ proposal = NoProposal
    /\ before_merge = NoMerge
    /\ edge_count_updates = NoUpdates
    /\ commit = NoCommit
    /\ SearchIdle

\* one call of _load_graph in Graph.load, and graph.update for a later part
load_part ==
    /\ phase = "load"
    /\ cursor < Len(edge_files)
    /\ IF edge_files[cursor + 1] = << >>
       THEN /\ phase' = "error"
            /\ UNCHANGED <<graph, cursor>>
       ELSE /\ graph' = load_graph_part(edge_files[cursor + 1], graph)
            /\ cursor' = cursor + 1
            /\ UNCHANGED phase
    /\ UNCHANGED <<edge_files, sample, max_num_nodal_itr, commit, searchVars, partitionVars,
                   num_blocks_to_merge, iteration, mergeVars, proposal, before_merge,
                   edge_count_updates>>

\* Graph.load returns the graph
loaded ==
    /\ phase = "load"
    /\ cursor = Len(edge_files)
    /\ phase' = "loaded"
    /\ UNCHANGED <<graph, edge_files, sample, max_num_nodal_itr, commit, searchVars,
                   partitionVars, num_blocks_to_merge, cursor, iteration, mergeVars,
                   proposal, before_merge, edge_count_updates>>

NextLoad ==
    \/ load_part
    \/ loaded

SpecLoad == InitLoad /\ [][NextLoad]_vars

(***************************************************************************)
(* Sample.__init__: the subgraph on the vertices of state.sample_idx, in   *)
(* the order sampled.  graph.get_out_neighbors(v) and get_in_neighbors(v)  *)
(* are the neighbour ids of v, one per edge.                               *)
(***************************************************************************)
\* the lists of distinct vertices of an N-vertex graph
SampleLists(N) ==
    UNION { {l \in [1 .. n -> VerticesOf(N)] :
                \A i, j \in 1 .. n : i # j => l[i] # l[j]}
            : n \in 0 .. N }

get_neighbors(nbrs, v) == [i \in 1 .. Len(nbrs[v]) |-> nbrs[v][i][1]]

\* neighbors[np.isin(neighbors, sampled_vertices)]
RECURSIVE Masked(_, _)
Masked(neighbors, sampled) ==
    IF neighbors = << >> THEN << >>
    ELSE (IF Head(neighbors) \in sampled THEN <<Head(neighbors)>> ELSE << >>)
         \o Masked(Tail(neighbors), sampled)

\* dict([(v, k) for k, v in enumerate(sampled_vertices)])
VertexMapping(sampled_vertices) ==
    [v \in {sampled_vertices[k] : k \in 1 .. Len(sampled_vertices)} |->
        (CHOOSE k \in 1 .. Len(sampled_vertices) :
            /\ sampled_vertices[k] = v
            /\ \A j \in 1 .. Len(sampled_vertices) : sampled_vertices[j] = v => j <= k)
        - 1]

\* the sampled neighbour lists, one per sampled vertex, renumbered
SampledNeighbors(nbrs, sampled_vertices) ==
    LET vertex_mapping == VertexMapping(sampled_vertices)
    IN [k \in 1 .. Len(sampled_vertices) |->
           LET kept == Masked(get_neighbors(nbrs, sampled_vertices[k]),
                              DOMAIN vertex_mapping)
           IN [i \in 1 .. Len(kept) |-> vertex_mapping[kept[i]]]]

\* Sample.__init__ on the vertices of state.sample_idx
Sample(sample_idx, g) ==
    LET outs == SampledNeighbors(g.out_neighbors, sample_idx)
        ins == SampledNeighbors(g.in_neighbors, sample_idx)
        vertex_mapping == VertexMapping(sample_idx)
    IN [sample_idx |-> sample_idx,
        vertex_mapping |-> vertex_mapping,
        out_neighbors |-> outs,
        in_neighbors |-> ins,
        \* self.num_edges += np.sum(out_mask) + np.sum(in_mask)
        num_edges |-> SumOver([k \in 1 .. Len(sample_idx) |-> Len(outs[k]) + Len(ins[k])],
                              1 .. Len(sample_idx)),
        sample_num |-> Cardinality(DOMAIN vertex_mapping)]

InitSample ==
    /\ graph \in {load_graph(rows, NumVertices) : rows \in EdgeFiles}
    /\ sample \in {[NoSample EXCEPT !.sample_idx = l] : l \in SampleLists(NumVertices)}
    /\ max_num_nodal_itr = 1
    /\ num_blocks = 0
    /\ block_assignment = << >>
    /\ interblock_edge_count = << >>
    /\ block_degrees_out = << >>
    /\ block_degrees_in = << >>
    /\ block_degrees = << >>
    /\ num_blocks_to_merge = 0
    /\ phase = "sample"
    /\ cursor = 0
    /\ iteration = 0
    /\ best_merge_for_each_block = << >>
    /\ delta_entropy_for_each_block = << >>
    /\ proposal = NoProposal
    /\ before_merge = NoMerge
    /\ edge_count_updates = NoUpdates
    /\ commit = NoCommit
    /\ edge_files = << >>
    /\ SearchIdle

sample_vertices ==
    /\ phase = "sample"
    /\ sample' = Sample(sample.sample_idx, graph)
    /\ phase' = "sampled"
    /\ UNCHANGED <<graph, edge_files, max_num_nodal_itr, commit, searchVars,
                   partitionVars, num_blocks_to_merge, cursor, iteration, mergeVars,
                   proposal, before_merge, edge_count_updates>>

NextSample == sample_vertices

SpecSample == InitSample /\ [][NextSample]_vars

(***************************************************************************)
(* The search for the number of blocks.  The driver computes the overall   *)
(* entropy of the partition it has, and prepare_for_partition_on_next_     *)
(* num_blocks stores it in the triplet and decides what the two phases run *)
(* on next.  Of a partition the search reads num_blocks and overall_       *)
(* entropy and writes num_blocks_to_merge, so a partition is these three   *)
(* here; the two phases take num_blocks_to_merge blocks away and leave a   *)
(* partition of some overall entropy, a rank of 0 .. MaxEntropy.           *)
(***************************************************************************)
MaxBlocks == 8
MaxEntropy == 3

\* the best snapshot gives way to the lower place and a worse partition
\* takes the upper place, wherever the new partition lies
update_unordered(partitions, partition) ==
    LET mid == partitions[1]
    IN IF mid = None
       THEN Triple(partitions[0], partition, partitions[2])
       ELSE IF partition.overall_entropy <= mid.overall_entropy
       THEN Triple(partitions[0], partition, mid)
       ELSE Triple(partition, mid, partitions[2])

\* PartitionTriplet.update: the new partition is the best (partitions[1]) when
\* its entropy is not above the best one's, whose snapshot then moves to the
\* side it lies on; otherwise the new partition takes the side it lies on
update(partitions, partition) ==
    LET mid == partitions[1]
    IN IF mid = None
       THEN Triple(partitions[0], partition, partitions[2])
       ELSE IF partition.overall_entropy <= mid.overall_entropy
       THEN IF mid.num_blocks > partition.num_blocks
            THEN Triple(mid, partition, partitions[2])
            ELSE Triple(partitions[0], partition, mid)
       ELSE IF mid.num_blocks < partition.num_blocks
            THEN Triple(partition, mid, partitions[2])
            ELSE Triple(partitions[0], mid, partition)

\* the whole of x
GoldenPartWhole(x) == x

\* x * 0.618 cut to an integer
GoldenPartCut(x) == (618 * x) \div 1000

\* np.round(x * 0.618).astype(int); no x below 250 is half way
GoldenPart(x) == (618 * x + 500) \div 1000

\* the bracket cannot be cut further
NeverTight(partitions) == FALSE

\* the test for three snapshots alone
TightWithHiOnly(partitions) ==
    /\ partitions[0] # None
    /\ partitions[0].num_blocks - partitions[2].num_blocks = 2

BracketIsTight(partitions) ==
    \/ /\ partitions[0] # None
       /\ partitions[0].num_blocks - partitions[2].num_blocks = 2
    \/ /\ partitions[0] = None
       /\ partitions[1].num_blocks - partitions[2].num_blocks = 1

\* prepare_for_partition_on_next_num_blocks after partition_triplet.update:
\* the partition it returns, optimal_B_found; raised when it reads num_blocks
\* of a place that holds None
DecideOn(partitions, B_rate) ==
    LET result(p, to_merge, found) ==
            [raised |-> FALSE, optimal_B_found |-> found,
             partition |-> [p EXCEPT !.num_blocks_to_merge = to_merge]]
    IN IF partitions[2] = None
       THEN LET to_merge == BlocksAtRate(partitions[1].num_blocks, B_rate)
            IN result(partitions[1], to_merge, to_merge = 0)
       ELSE IF BracketIsTight(partitions)
       THEN result(partitions[1], partitions[1].num_blocks_to_merge, TRUE)
       ELSE IF partitions[0] = None /\ partitions[1].num_blocks <= partitions[2].num_blocks
       THEN [raised |-> TRUE, optimal_B_found |-> FALSE, partition |-> None]
       ELSE LET index == IF partitions[0] = None THEN 1
                         ELSE IF partitions[0].num_blocks - partitions[1].num_blocks
                                 >= partitions[1].num_blocks - partitions[2].num_blocks
                              THEN 0
                              ELSE 1
                next_B_to_try == partitions[index + 1].num_blocks
                                 + GoldenPart(partitions[index].num_blocks
                                              - partitions[index + 1].num_blocks)
            IN result(partitions[index], partitions[index].num_blocks - next_B_to_try,
                      FALSE)

\* the partitions of the triplet after the step's first two statements
Stored(partitions, partition) ==
    update(partitions, [partition EXCEPT !.num_blocks_to_merge = 0])

\* the partition the search is at
Partition ==
    [num_blocks |-> num_blocks, overall_entropy |-> overall_entropy,
     num_blocks_to_merge |-> num_blocks_to_merge]

SearchInit(rates) ==
    /\ graph = load_graph(<< >>, MaxBlocks)
    /\ max_num_nodal_itr = 1
    /\ num_blocks \in 1 .. MaxBlocks
    /\ block_assignment = << >>
    /\ interblock_edge_count = << >>
    /\ block_degrees_out = << >>
    /\ block_degrees_in = << >>
    /\ block_degrees = << >>
    /\ num_blocks_to_merge = 0
    /\ phase = "search"
    /\ cursor = 0
    /\ iteration = 0
    /\ best_merge_for_each_block = << >>
    /\ delta_entropy_for_each_block = << >>
    /\ proposal = NoProposal
    /\ before_merge = NoMerge
    /\ edge_count_updates = NoUpdates
    /\ commit = NoCommit
    /\ edge_files = << >>
    /\ sample = NoSample
    /\ block_reduction_rate \in rates
    /\ overall_entropy \in 0 .. MaxEntropy
    /\ move_delta_entropy = 0
    /\ partition_triplet = NoTriplet

InitSearch == SearchInit(B_rates)

\* what the driver step leaves when it has decided on the partitions stored
Returns(partitions) ==
    LET step == DecideOn(partitions, block_reduction_rate)
    IN /\ num_blocks' = step.partition.num_blocks
       /\ overall_entropy' = step.partition.overall_entropy
       /\ num_blocks_to_merge' = step.partition.num_blocks_to_merge
       /\ partition_triplet' = [partitions |-> partitions,
                                optimal_num_blocks_found |-> step.optimal_B_found]
       /\ phase' = IF step.raised THEN "error"
                   ELSE IF step.optimal_B_found THEN "found"
                   ELSE "phases"
       /\ UNCHANGED <<graph, edge_files, sample, max_num_nodal_itr, commit, block_assignment, interblock_edge_count,
                      block_degrees_out, block_degrees_in, block_degrees, cursor,
                      iteration, mergeVars, proposal, before_merge, edge_count_updates,
                      block_reduction_rate, move_delta_entropy>>

\* the driver step with the triplet: "found" ends the run, "phases" runs the
\* two phases on the partition returned
next_num_blocks ==
    /\ phase = "search"
    /\ Returns(Stored(partition_triplet.partitions, Partition))

\* merge_blocks and the vertex phase on the partition returned: the merge
\* pass raises, or num_blocks_to_merge blocks are gone and the overall
\* entropy is computed anew
run_phases ==
    /\ phase = "phases"
    /\ \/ /\ phase' = "error"
          /\ UNCHANGED <<num_blocks, overall_entropy>>
       \/ /\ num_blocks_to_merge < num_blocks
          /\ num_blocks' = num_blocks - num_blocks_to_merge
          /\ overall_entropy' \in 0 .. MaxEntropy
          /\ phase' = "search"
    /\ UNCHANGED <<graph, edge_files, sample, max_num_nodal_itr, commit, block_assignment, interblock_edge_count,
                   block_degrees_out, block_degrees_in, block_degrees,
                   num_blocks_to_merge, cursor, iteration, mergeVars, proposal,
                   before_merge, edge_count_updates, block_reduction_rate,
                   move_delta_entropy, partition_triplet>>

NextSearch ==
    \/ next_num_blocks
    \/ run_phases

SpecSearch == InitSearch /\ [][NextSearch]_vars

\* the same search started with any rate a configuration can carry, the
\* rates outside the open interval (0, 1) included: 0, 1 and 3/2
AnyRates == B_rates \cup { <<0, 1>>, <<1, 1>>, <<3, 2>> }

InitConfig == SearchInit(AnyRates)

SpecConfig == InitConfig /\ [][NextSearch]_vars

\* the two phases when the merge pass does not raise
phases_done ==
    /\ run_phases
    /\ phase' = "search"

\* the rounds of the search with phases that succeed; the driver loop goes on
\* for as long as optimal_num_blocks_found is not set
NextRound ==
    \/ next_num_blocks
    \/ phases_done

SpecRound == InitSearch /\ [][NextRound]_vars /\ WF_vars(NextRound)

(***************************************************************************)
(* The driver step on any triplet its update can have left: the places     *)
(* hold partitions in the order of their number of blocks, from the        *)
(* highest to the lowest, and the middle one is the best so far.           *)
(***************************************************************************)
Snapshots ==
    [num_blocks : 1 .. MaxBlocks, overall_entropy : 0 .. MaxEntropy,
     num_blocks_to_merge : {0}]

StoredTriplets ==
    {Triple(h, m, l) : h \in Snapshots \cup {None}, m \in Snapshots,
                       l \in Snapshots \cup {None}} 

InOrder(partitions) ==
    /\ partitions[1] # None
    /\ partitions[0] # None =>
          /\ partitions[0].num_blocks > partitions[1].num_blocks
          /\ partitions[0].overall_entropy >= partitions[1].overall_entropy
    /\ partitions[2] # None =>
          /\ partitions[1].num_blocks > partitions[2].num_blocks
          /\ partitions[2].overall_entropy >= partitions[1].overall_entropy

InitStep ==
    /\ graph = load_graph(<< >>, MaxBlocks)
    /\ max_num_nodal_itr = 1
    /\ partition_triplet \in
          {[partitions |-> t, optimal_num_blocks_found |-> FALSE] :
              t \in {x \in StoredTriplets : InOrder(x)}}
    /\ \E p \in {partition_triplet.partitions[i] : i \in 0 .. 2} \ {None} :
          /\ num_blocks = p.num_blocks
          /\ overall_entropy = p.overall_entropy
    /\ block_assignment = << >>
    /\ interblock_edge_count = << >>
    /\ block_degrees_out = << >>
    /\ block_degrees_in = << >>
    /\ block_degrees = << >>
    /\ num_blocks_to_merge = 0
    /\ phase = "stored"
    /\ cursor = 0
    /\ iteration = 0
    /\ best_merge_for_each_block = << >>
    /\ delta_entropy_for_each_block = << >>
    /\ proposal = NoProposal
    /\ before_merge = NoMerge
    /\ edge_count_updates = NoUpdates
    /\ commit = NoCommit
    /\ edge_files = << >>
    /\ sample = NoSample
    /\ block_reduction_rate \in B_rates
    /\ move_delta_entropy = 0

\* the driver step from its third statement on
decide_next_num_blocks ==
    /\ phase = "stored"
    /\ Returns(partition_triplet.partitions)

NextStep == decide_next_num_blocks

SpecStep == InitStep /\ [][NextStep]_vars

(***************************************************************************)
(* Entropies.  Every number the two entropy functions take a logarithm of  *)
(* is a quotient of integers, and every coefficient is an integer or, in   *)
(* the second model term, B^2 / E.  A value is held exactly, as the        *)
(* integer combination of logarithms of primes it is: ln[p] is the         *)
(* coefficient of ln(p).  The overall entropy is held as E times itself.   *)
(* A value that is not finite (nan, inf, a division by zero) is NonFinite. *)
(***************************************************************************)
MaxPrime == 31

Primes == {p \in 2 .. MaxPrime : \A q \in 2 .. p - 1 : p % q # 0}

RECURSIVE ExponentOf(_, _)
ExponentOf(p, n) == IF n % p = 0 THEN 1 + ExponentOf(p, n \div p) ELSE 0

Finite(v) == [finite |-> TRUE, ln |-> v]
NonFinite == [finite |-> FALSE, ln |-> [p \in Primes |-> 0]]

Zero == Finite([p \in Primes |-> 0])

\* np.log(n) of an integer n >= 1
Log(n) == Finite([p \in Primes |-> ExponentOf(p, n)])

Plus(a, b) ==
    IF a.finite /\ b.finite THEN Finite([p \in Primes |-> a.ln[p] + b.ln[p]])
    ELSE NonFinite

Times(k, a) == IF a.finite THEN Finite([p \in Primes |-> k * a.ln[p]]) ELSE NonFinite

Minus(a, b) == Plus(a, Times(0 - 1, b))

Magnitude(n) == IF n < 0 THEN 0 - n ELSE n

\* m * np.log(m / a / b): a division by zero or the logarithm of a negative
\* quotient is not finite
LogTerm(m, a, b) ==
    IF a * b = 0 \/ m * a * b <= 0 THEN NonFinite
    ELSE Times(m, Minus(Log(Magnitude(m)),
                        Plus(Log(Magnitude(a)), Log(Magnitude(b)))))

\* np.sum of the values term[x], x in S
RECURSIVE SumOfTerms(_, _)
SumOfTerms(term, S) ==
    IF S = {} THEN Zero
    ELSE LET x == CHOOSE y \in S : TRUE
         IN Plus(term[x], SumOfTerms(term, S \ {x}))

NonZeros(vec, S) == {t \in S : vec[t] # 0}

\* data_S = -np.sum(entries): the sum over the non-zero entries of M
DataEntropy(M, d_out, d_in, B) ==
    LET nonzeros == {c \in Blocks(B) \X Blocks(B) : M[c[1]][c[2]] # 0}
    IN Times(0 - 1,
             SumOfTerms([c \in nonzeros |->
                            LogTerm(M[c[1]][c[2]], d_out[c[1]], d_in[c[2]])],
                        nonzeros))

\* E times the second model term as one factor E multiplies it:
\* E * x * ln(x) with x = B^2 / E
ScaledModelTerm(B, E) == Times(E * B * B, Minus(Log(B * B), Log(E)))

\* E times model_S_term * np.log(model_S_term): the term as the return
\* expression has it, outside the product that begins with E
ModelTerm(B, E) == Times(B * B, Minus(Log(B * B), Log(E)))

\* compute_overall_entropy, E times its value; B^2 / float(E) raises
\* ZeroDivisionError when E = 0
compute_overall_entropy(M, d_out, d_in, B, N, E) ==
    IF E = 0 THEN NonFinite
    ELSE Plus(Minus(Plus(Times(E * (E + B * B), Minus(Log(E + B * B), Log(E))),
                         Times(E * N, Log(B))),
                    ModelTerm(B, E)),
              Times(E, DataEntropy(M, d_out, d_in, B)))

\* compute_delta_entropy, dense path, r # s: the new rows r and s and the new
\* columns r and s without the cells r and s, minus the current ones
compute_delta_entropy(r, s, M, d_out, d_in, updates, d_out_new, d_in_new, B) ==
    LET all == Blocks(B)
        idx == Blocks(B) \ {r, s}
        M_r_t1 == RowOf(M, r, B)
        M_s_t1 == RowOf(M, s, B)
        M_t2_r == ColOf(M, r, B)
        M_t2_s == ColOf(M, s, B)
        Sum(vec, S, a, b) ==
            SumOfTerms([t \in NonZeros(vec, S) |-> LogTerm(vec[t], a[t], b)],
                       NonZeros(vec, S))
        new == Plus(Plus(Sum(updates.block_row, all, d_in_new, d_out_new[r]),
                         Sum(updates.proposal_row, all, d_in_new, d_out_new[s])),
                    Plus(Sum(updates.block_col, idx, d_out_new, d_in_new[r]),
                         Sum(updates.proposal_col, idx, d_out_new, d_in_new[s])))
        old == Plus(Plus(Sum(M_r_t1, all, d_in, d_out[r]),
                         Sum(M_s_t1, all, d_in, d_out[s])),
                    Plus(Sum(M_t2_r, idx, d_out, d_in[r]),
                         Sum(M_t2_s, idx, d_out, d_in[s])))
    IN Minus(old, new)

(***************************************************************************)
(* The entropies on their own: the overall entropy of any partition with   *)
(* initialised counts is computed, then a vertex is moved to another block *)
(* and the move's delta entropy is computed on the way.                    *)
(***************************************************************************)
InitEntropy ==
    /\ graph \in {load_graph(rows, NumVertices) : rows \in EdgeFiles}
    /\ max_num_nodal_itr = 1
    /\ PartitionInit(NumVertices)
    /\ num_blocks_to_merge = 0
    /\ phase = "entropy"
    /\ cursor = 0
    /\ iteration = 0
    /\ best_merge_for_each_block = << >>
    /\ delta_entropy_for_each_block = << >>
    /\ proposal = NoProposal
    /\ before_merge = NoMerge
    /\ edge_count_updates = NoUpdates
    /\ commit = NoCommit
    /\ edge_files = << >>
    /\ sample = NoSample
    /\ block_reduction_rate = <<0, 1>>
    /\ overall_entropy = Zero
    /\ move_delta_entropy = Zero
    /\ partition_triplet = NoTriplet

OverallEntropy ==
    compute_overall_entropy(interblock_edge_count, block_degrees_out, block_degrees_in,
                            num_blocks, graph.num_nodes, graph.num_edges)

overall_entropy_computed ==
    /\ phase = "entropy"
    /\ overall_entropy' = OverallEntropy
    /\ phase' = "computed"
    /\ UNCHANGED <<graph, edge_files, sample, max_num_nodal_itr, commit, partitionVars, num_blocks_to_merge, cursor,
                   iteration, mergeVars, proposal, before_merge, edge_count_updates,
                   block_reduction_rate, move_delta_entropy, partition_triplet>>

\* vertex ni is moved from its block r to another block s: the kernel's
\* update, the new degrees, the delta entropy, and the commit
move_scored ==
    /\ phase = "computed"
    /\ \E ni \in VerticesOf(graph.num_nodes), s \in Blocks(num_blocks) :
          LET r == block_assignment[ni]
              k_out == SumColumn(graph.out_neighbors[ni], 1)
              k_in == SumColumn(graph.in_neighbors[ni], 1)
              updates == VertexUpdatesOf(ni, s)
              new == compute_new_block_degrees(r, s, block_degrees_out, block_degrees_in,
                                               block_degrees, k_out, k_in, k_out + k_in)
          IN /\ s # r
             /\ proposal' = [kind |-> "scored", ni |-> ni, r |-> r, s |-> s,
                             path |-> "none",
                             k_out |-> k_out, k_in |-> k_in, k |-> k_out + k_in]
             /\ move_delta_entropy' =
                    compute_delta_entropy(r, s, interblock_edge_count, block_degrees_out,
                                          block_degrees_in, updates, new.d_out, new.d_in,
                                          num_blocks)
             /\ CommitMove(ni, s, updates, k_out, k_in, k_out + k_in)
    /\ phase' = "moved"
    /\ UNCHANGED <<graph, edge_files, sample, max_num_nodal_itr, commit, num_blocks, num_blocks_to_merge, cursor,
                   iteration, mergeVars, before_merge, block_reduction_rate,
                   overall_entropy, partition_triplet>>

NextEntropy ==
    \/ overall_entropy_computed
    \/ move_scored

SpecEntropy == InitEntropy /\ [][NextEntropy]_vars

(***************************************************************************)
(* Properties.                                                             *)
(***************************************************************************)
Recomputed == initialize_edge_counts(graph.out_neighbors, block_assignment, num_blocks)

\* the partition's matrix and degrees are the ones of its assignment
Consistent ==
    /\ interblock_edge_count = Recomputed.M
    /\ block_degrees_out = Recomputed.d_out
    /\ block_degrees_in = Recomputed.d_in
    /\ block_degrees = Recomputed.d

\* the state is one a committed move or a phase boundary leaves
AfterCommit ==
    proposal.kind \in {"move", "merged"} \/ phase \in {"prepare", "done"}

UsedIds == {block_assignment[v] : v \in DOMAIN block_assignment}

\* C1: after an accepted vertex move the committed matrix and degree vectors
\* equal the ones recomputed from scratch from the new assignment and the
\* graph, weighted edges and self-loops included
C1_MoveEqualsRecomputation ==
    proposal.kind = "move" => Consistent

DegreesMatchM ==
    /\ block_degrees_out = RowSums(interblock_edge_count, num_blocks)
    /\ block_degrees_in = ColSums(interblock_edge_count, num_blocks)
    /\ \A i \in Blocks(num_blocks) :
          block_degrees[i] = block_degrees_out[i] + block_degrees_in[i]

\* C2: after every committed move and at every phase boundary the block
\* degrees are the row sums and column sums of M, and d = d_out + d_in
C2_DegreesMatchM ==
    AfterCommit => DegreesMatchM

NonNegative(vec) == \A t \in DOMAIN vec : vec[t] >= 0

\* C3: every entry of M is non-negative, and so is every entry of the four
\* vectors the merge-update kernel or the vertex-move kernel returned
C3_NonNegative ==
    /\ \A i, j \in Blocks(num_blocks) : interblock_edge_count[i][j] >= 0
    /\ NonNegative(edge_count_updates.block_row)
    /\ NonNegative(edge_count_updates.proposal_row)
    /\ NonNegative(edge_count_updates.block_col)
    /\ NonNegative(edge_count_updates.proposal_col)

\* C4: the sum of all entries of M is the graph's number of edges E, after
\* every committed move and at every phase boundary
C4_TotalIsE ==
    AfterCommit => TotalOf(interblock_edge_count, num_blocks) = graph.num_edges

\* C5: every vertex's block id lies in [0, num_blocks), after any sequence of
\* vertex moves and merge passes, also when moves left a block empty
C5_AssignmentInRange ==
    \A v \in DOMAIN block_assignment :
        block_assignment[v] >= 0 /\ block_assignment[v] < num_blocks

\* a vertex move after a merge pass has just left block r without a vertex
C5_MoveEmptiesBlockAfterMerge ==
    /\ proposal.kind = "move"
    /\ before_merge # NoMerge
    /\ proposal.r \notin UsedIds
    /\ C5_AssignmentInRange

\* C6: a merge pass ends having committed exactly num_blocks_to_merge merges;
\* it completes also when fewer distinct merges are available
C6_MergePassCompletes ==
    proposal.kind \in {"merged", "index_error"}
        => /\ proposal.kind = "merged"
           /\ num_blocks = before_merge.num_blocks - num_blocks_to_merge

\* C7: after the merge commit the used block ids are exactly
\* {0, ..., B - num_blocks_to_merge - 1}, B the number of blocks before the pass
C7_CompactedIds ==
    proposal.kind = "merged"
        => /\ UsedIds = Blocks(before_merge.num_blocks - num_blocks_to_merge)
           /\ num_blocks = before_merge.num_blocks - num_blocks_to_merge

\* C8: the vertex-move kernel called with r = s returns the current row and
\* column of r, so committing it leaves M as it was
C8_SameBlockIsIdentity ==
    (phase = "applied" /\ proposal.r = proposal.s)
        => /\ edge_count_updates.block_row = RowOf(Recomputed.M, proposal.r, num_blocks)
           /\ edge_count_updates.proposal_row = RowOf(Recomputed.M, proposal.r, num_blocks)
           /\ edge_count_updates.block_col = ColOf(Recomputed.M, proposal.r, num_blocks)
           /\ edge_count_updates.proposal_col = ColOf(Recomputed.M, proposal.r, num_blocks)
           /\ interblock_edge_count = Recomputed.M

\* C9: with B >= 2 every agglomerative call of propose_new_partition returns
\* a block of [0, B) other than r
C9_AggProposalInRange ==
    (proposal.kind \in {"merge", "merge_raised"} /\ num_blocks >= 2)
        => /\ proposal.kind = "merge"
           /\ proposal.s \in Blocks(num_blocks)
           /\ proposal.s # proposal.r

\* total degree of the vertex or block a proposal was made for
ProposerDegree ==
    IF proposal.kind \in {"merge", "merge_raised"}
    THEN SumOver(RowOf(interblock_edge_count, proposal.r, num_blocks), Blocks(num_blocks))
         + SumOver(ColOf(interblock_edge_count, proposal.r, num_blocks), Blocks(num_blocks))
    ELSE SumColumn(graph.out_neighbors[proposal.ni], 1)
         + SumColumn(graph.in_neighbors[proposal.ni], 1)

\* C10: a proposal for a vertex or block of total degree 0 still returns: a
\* uniformly drawn block (other than r when agglomerative) with k_out, k_in
\* and k equal to 0
C10_ZeroDegreeProposal ==
    (/\ proposal.kind \in {"merge", "merge_raised", "skip", "reject", "vertex_raised"}
     /\ ProposerDegree = 0
     /\ (proposal.kind \in {"merge", "merge_raised"} => num_blocks >= 2))
        => /\ proposal.kind \in {"merge", "skip", "reject"}
           /\ proposal.path = "zero_degree"
           /\ proposal.s \in Blocks(num_blocks)
           /\ proposal.kind = "merge" => proposal.s # proposal.r
           /\ proposal.k_out = 0 /\ proposal.k_in = 0 /\ proposal.k = 0

\* C11: a single block is terminal: the merge scoring draws no proposal on a
\* partition with one block and nothing fails, and the driver step schedules
\* no merge for it
C11_SingleBlockIsTerminal ==
    num_blocks = 1
        => /\ ~(proposal.kind \in {"merge", "merge_raised"})
           /\ phase \in {"merge", "done"} => num_blocks_to_merge = 0

\* the triplet's places
hi == partition_triplet.partitions[0]
mid == partition_triplet.partitions[1]
lo == partition_triplet.partitions[2]

\* the driver step has just returned
Decided == phase \in {"found", "phases"}

Distance(a, b) == IF a >= b THEN a - b ELSE b - a

\* the bracket is tight: three snapshots with hi and lo at most 2 blocks
\* apart, or mid and lo alone and 1 block apart
TightBracket ==
    \/ /\ hi # None /\ mid # None /\ lo # None
       /\ Distance(hi.num_blocks, lo.num_blocks) <= 2
    \/ /\ hi = None /\ mid # None /\ lo # None
       /\ Distance(mid.num_blocks, lo.num_blocks) = 1

\* mid is a snapshot of the lowest overall entropy
MidIsBest ==
    /\ mid # None
    /\ \A p \in {hi, lo} \ {None} : mid.overall_entropy <= p.overall_entropy

\* the partition returned is a copy of mid
ReturnedMid == Partition = mid

\* C12: the driver step reports the optimum and returns a copy of mid whenever
\* the bracket is tight; whenever it reports the optimum, what it returns is a
\* copy of mid, the snapshot of the lowest entropy
C12_TightBracketEmitsMid ==
    Decided => /\ TightBracket => (partition_triplet.optimal_num_blocks_found /\ ReturnedMid)
               /\ partition_triplet.optimal_num_blocks_found => (ReturnedMid /\ MidIsBest)

\* the optimum is reported on three snapshots, hi and lo 2 blocks apart
C12_FoundBetweenHiAndLo ==
    /\ phase = "found"
    /\ hi # None /\ lo # None
    /\ hi.num_blocks - lo.num_blocks = 2
    /\ ReturnedMid

\* n = floor(B * rate)
IsFloorOfRate(n, B, rate) ==
    n * rate[2] <= B * rate[1] /\ B * rate[1] < (n + 1) * rate[2]

\* the step continued from a copy of mid with floor(mid.B * rate) blocks to
\* merge, and emitted mid if that is 0
ShrinksFromMid ==
    /\ num_blocks = mid.num_blocks
    /\ overall_entropy = mid.overall_entropy
    /\ IsFloorOfRate(num_blocks_to_merge, mid.num_blocks, block_reduction_rate)
    /\ num_blocks_to_merge = 0 => phase = "found"

\* C13 as stated: while the triplet has no upper (hi) snapshot, the driver
\* step continues from a copy of mid and schedules floor(mid.B * rate) blocks
\* to merge; if that is 0 it emits mid
C13_NoUpperSnapshotShrinks ==
    (Decided /\ hi = None) => ShrinksFromMid

\* C13: while the triplet has no lower (lo) snapshot, the driver step
\* continues from a copy of mid and schedules floor(mid.B * rate) blocks to
\* merge; if that is 0 it emits mid
C13_NoLowerSnapshotShrinks ==
    (Decided /\ lo = None) => ShrinksFromMid

\* the search shrinks on although an upper snapshot exists
C13_ShrinksBelowUpperSnapshot ==
    /\ phase = "phases"
    /\ lo = None /\ hi # None
    /\ num_blocks_to_merge > 0
    /\ ShrinksFromMid

\* n is the integer nearest to 0.618 * x
IsGoldenPart(n, x) == Distance(1000 * n, 618 * x) <= 500

\* the step took the side from high down to low
TookSide(high, low) ==
    /\ num_blocks = high.num_blocks
    /\ overall_entropy = high.overall_entropy
    /\ \E next_B \in 0 .. MaxBlocks :
          /\ IsGoldenPart(next_B - low.num_blocks, high.num_blocks - low.num_blocks)
          /\ num_blocks_to_merge = high.num_blocks - next_B

\* C14: with the bracket established and not tight, the driver step takes the
\* larger side of the bracket, next_B = side_low.B + round(0.618 * (side_high.B
\* - side_low.B)), and returns a copy of side_high with side_high.B - next_B
\* blocks to merge; the snapshots of the triplet stay as they were stored
C14_GoldenSection ==
    (Decided /\ lo # None /\ ~TightBracket)
        => /\ IF hi = None THEN TookSide(mid, lo)
              ELSE IF hi.num_blocks - mid.num_blocks > mid.num_blocks - lo.num_blocks
              THEN TookSide(hi, mid)
              ELSE IF hi.num_blocks - mid.num_blocks < mid.num_blocks - lo.num_blocks
              THEN TookSide(mid, lo)
              ELSE TookSide(hi, mid) \/ TookSide(mid, lo)
           /\ \A p \in {hi, mid, lo} \ {None} : p.num_blocks_to_merge = 0
           /\ ~partition_triplet.optimal_num_blocks_found

\* the lower side is the larger one, 3 blocks or more, and is cut
C14_LowerSideCut ==
    /\ phase = "phases"
    /\ hi # None /\ lo # None
    /\ mid.num_blocks - lo.num_blocks >= 3
    /\ mid.num_blocks - lo.num_blocks > hi.num_blocks - mid.num_blocks
    /\ TookSide(mid, lo)

\* C15: after every triplet update the snapshots present are in strictly
\* decreasing order of B, hi above mid above lo, and with all three present
\* mid has the lowest overall entropy
C15_TripletOrdered ==
    /\ (hi # None /\ mid # None) => hi.num_blocks > mid.num_blocks
    /\ (mid # None /\ lo # None) => mid.num_blocks > lo.num_blocks
    /\ (hi # None /\ lo # None) => hi.num_blocks > lo.num_blocks
    /\ (hi # None /\ mid # None /\ lo # None) => MidIsBest

\* an update has put a partition between two snapshots of higher entropy
C15_ThreeSnapshots ==
    /\ Decided
    /\ hi # None /\ mid # None /\ lo # None
    /\ mid.overall_entropy < hi.overall_entropy
    /\ mid.overall_entropy < lo.overall_entropy
    /\ C15_TripletOrdered

RateOutOfRange ==
    ~(0 < block_reduction_rate[1] /\ block_reduction_rate[1] < block_reduction_rate[2])

\* C17: an out-of-range parameter is rejected before any state is changed:
\* with a rate outside (0, 1) the run is rejected or still where it began,
\* nothing stored in the triplet and no merge scheduled or carried out
C17_InvalidConfigRejected ==
    RateOutOfRange
        => /\ phase \in {"search", "rejected"}
           /\ partition_triplet = NoTriplet
           /\ num_blocks_to_merge = 0

\* E times E * h(B^2 / E) + N * ln(B) - sum of M[i,j] * ln(M[i,j] / (d_out[i] *
\* d_in[j])) over the non-zero entries, h(x) = (1 + x) * ln(1 + x) - x * ln(x)
EntropyFormula(M, d_out, d_in, B, N, E) ==
    Plus(Minus(Plus(Times(E * (E + B * B), Minus(Log(E + B * B), Log(E))),
                    Times(E * N, Log(B))),
               Times(E * B * B, Minus(Log(B * B), Log(E)))),
         Times(E, DataEntropy(M, d_out, d_in, B)))

\* C19: compute_overall_entropy returns E * h(B^2 / E) + N * ln(B) minus the
\* sum of M[i,j] * ln(M[i,j] / (d_out[i] * d_in[j])) over the non-zero
\* entries; both terms of h are multiplied by E
C19_OverallEntropyFormula ==
    (phase = "computed" /\ graph.num_edges > 0)
        => overall_entropy = EntropyFormula(interblock_edge_count, block_degrees_out,
                                            block_degrees_in, num_blocks,
                                            graph.num_nodes, graph.num_edges)

\* C18: the delta entropy compute_delta_entropy returned for a move with
\* r # s is the overall entropy of the partition after the move minus the
\* one before it
C18_DeltaIsEntropyDifference ==
    (phase = "moved" /\ graph.num_edges > 0)
        => /\ move_delta_entropy.finite
           /\ Times(graph.num_edges, move_delta_entropy)
                 = Minus(OverallEntropy, overall_entropy)

\* the four vectors of the last update agree on the cells rows and columns
\* r and s share
SharedCellsAgree(r, s) ==
    /\ edge_count_updates.block_row[r] = edge_count_updates.block_col[r]
    /\ edge_count_updates.proposal_row[s] = edge_count_updates.proposal_col[s]
    /\ edge_count_updates.block_row[s] = edge_count_updates.proposal_col[r]
    /\ edge_count_updates.proposal_row[r] = edge_count_updates.block_col[s]

\* C20: an update a kernel produced on a valid partition with r # s agrees on
\* the four cells its vectors share, so the matrix update_partition writes
\* does not depend on the order of its four writes
C20_SharedCellsAgree ==
    (/\ phase \in {"applied", "merge"}
     /\ proposal.kind \in {"kernel", "merge"}
     /\ proposal.r # proposal.s)
        => SharedCellsAgree(proposal.r, proposal.s)


\* the assignment with every vertex of r relabelled as s
Relabelled(b, r, s) == [v \in DOMAIN b |-> IF b[v] = r THEN s ELSE b[v]]

\* the matrix recomputed from the graph after r was emptied into s
MergedCounts(r, s) ==
    initialize_edge_counts(graph.out_neighbors, Relabelled(block_assignment, r, s),
                           num_blocks).M

\* row s (or column s) of the merged matrix written from M: first, second are
\* M[s][t], M[r][t] for the row and M[t][s], M[t][r] for the column
MergedVector(r, s, first, second) ==
    [t \in Blocks(num_blocks) |->
        IF t = r THEN 0
        ELSE IF t = s
        THEN interblock_edge_count[s][s] + interblock_edge_count[s][r]
             + interblock_edge_count[r][s] + interblock_edge_count[r][r]
        ELSE first[t] + second[t]]

\* C21: the merge update for r emptying into s (r # s), called with the
\* nonzero entries of row r and of column r of M and with M[r, r], equals rows
\* and columns r and s of the matrix recomputed after every vertex of r was
\* relabelled as s: row r and column r are 0, row s and column s are the sums
\* of the two rows and of the two columns, with the four cells of r and s
\* collected at [s, s]
C21_MergeEqualsRecomputation ==
    proposal.kind = "merge_kernel"
        => LET r == proposal.r
               s == proposal.s
               M == interblock_edge_count
               merged == MergedCounts(r, s)
               upd == edge_count_updates
           IN /\ upd.block_row = RowOf(merged, r, num_blocks)
              /\ upd.block_col = ColOf(merged, r, num_blocks)
              /\ upd.proposal_row = RowOf(merged, s, num_blocks)
              /\ upd.proposal_col = ColOf(merged, s, num_blocks)
              /\ upd.block_row = [t \in Blocks(num_blocks) |-> 0]
              /\ upd.block_col = [t \in Blocks(num_blocks) |-> 0]
              /\ upd.proposal_row = MergedVector(r, s, RowOf(M, s, num_blocks),
                                                 RowOf(M, r, num_blocks))
              /\ upd.proposal_col = MergedVector(r, s, ColOf(M, s, num_blocks),
                                                 ColOf(M, r, num_blocks))

\* a merge of a block with edges to itself, to s and from s
C21_SelfAndCrossEdgesMerged ==
    /\ proposal.kind = "merge_kernel"
    /\ num_blocks = 2
    /\ interblock_edge_count[proposal.r][proposal.r] > 0
    /\ interblock_edge_count[proposal.r][proposal.s] > 0
    /\ interblock_edge_count[proposal.s][proposal.r] > 0
    /\ edge_count_updates.proposal_row[proposal.s]
          = interblock_edge_count[proposal.s][proposal.s]
            + interblock_edge_count[proposal.s][proposal.r]
            + interblock_edge_count[proposal.r][proposal.s]
            + interblock_edge_count[proposal.r][proposal.r]


\* the candidate degree vectors propose_merge passes on: compute_new_block_degrees
\* on the k_out, k_in, k the proposal returned
MergeDegrees ==
    compute_new_block_degrees(proposal.r, proposal.s, block_degrees_out,
                              block_degrees_in, block_degrees,
                              proposal.k_out, proposal.k_in, proposal.k)

\* C22: in the merge phase the k_out, k_in, k the proposal returns for block r
\* are d_out[r], d_in[r], d[r], so the candidate degree vectors are the merged
\* degrees: 0 at r, the sum of the two blocks' degrees at s, every other
\* block's degrees unchanged
C22_MergedDegrees ==
    proposal.kind = "merge"
        => LET r == proposal.r
               s == proposal.s
           IN /\ proposal.k_out = block_degrees_out[r]
              /\ proposal.k_in = block_degrees_in[r]
              /\ proposal.k = block_degrees[r]
              /\ MergeDegrees.d_out[r] = 0
              /\ MergeDegrees.d_in[r] = 0
              /\ MergeDegrees.d[r] = 0
              /\ MergeDegrees.d_out[s] = block_degrees_out[r] + block_degrees_out[s]
              /\ MergeDegrees.d_in[s] = block_degrees_in[r] + block_degrees_in[s]
              /\ \A t \in Blocks(num_blocks) \ {r, s} :
                    /\ MergeDegrees.d_out[t] = block_degrees_out[t]
                    /\ MergeDegrees.d_in[t] = block_degrees_in[t]
                    /\ MergeDegrees.d[t] = block_degrees[t]


\* the candidate the next pass of the commit loop examines, and the block its
\* recorded target resolves to through block_map
Candidate == commit.bestMerges[commit.counter + 1]
ResolvedTarget ==
    commit.block_map[PyIndex(best_merge_for_each_block[Candidate], num_blocks)]

\* the commit loop is about to examine a candidate
Examining ==
    /\ phase = "commit_loop"
    /\ commit.num_merge < num_blocks_to_merge
    /\ commit.counter < num_blocks

\* the candidates are examined by ascending delta entropy; one that resolves
\* to itself is passed over and not counted; any other has its vertices
\* relabelled to the resolved target, which block_map records
CommitPass ==
    Examining
        => /\ commit'.counter = commit.counter + 1
           /\ commit'.bestMerges = commit.bestMerges
           /\ \A i \in 1 .. commit.counter :
                 delta_entropy_for_each_block[commit.bestMerges[i]]
                    <= delta_entropy_for_each_block[Candidate]
           /\ IF ResolvedTarget = Candidate
              THEN /\ commit'.num_merge = commit.num_merge
                   /\ commit'.block_map = commit.block_map
                   /\ block_assignment' = block_assignment
              ELSE /\ commit'.num_merge = commit.num_merge + 1
                   /\ commit'.block_map[Candidate] = ResolvedTarget
                   /\ block_assignment' =
                          [v \in DOMAIN block_assignment |->
                              IF block_assignment[v] = Candidate THEN ResolvedTarget
                              ELSE block_assignment[v]]

\* with the merges done no further candidate is examined
CommitStops ==
    (phase = "commit_loop" /\ commit.num_merge >= num_blocks_to_merge)
        => /\ phase' = "committed"
           /\ commit' = commit

\* the blocks block_map sends elsewhere
MergedAway == {a \in DOMAIN commit.block_map : commit.block_map[a] # a}

NoMergedAwayLabel ==
    phase = "commit_loop"
        => /\ commit.num_merge <= num_blocks_to_merge
           /\ \A v \in DOMAIN block_assignment : block_assignment[v] \notin MergedAway

\* C23: carry_out_best_merges visits the candidate blocks in ascending order
\* of their best delta entropy; a candidate is skipped and not counted exactly
\* when its target resolves through block_map to the candidate itself;
\* otherwise every vertex labelled with it is relabelled to the resolved
\* target and block_map records the merge; the loop stops as soon as
\* num_blocks_to_merge merges have succeeded, and then no vertex carries the
\* label of a block that was merged away
C23_CommitOrder ==
    /\ [][CommitPass /\ CommitStops]_vars
    /\ [](NoMergedAwayLabel)

\* a finished commit with a skipped candidate and a block that ended up
\* elsewhere than its recorded target
C23_SkipAndResolve ==
    /\ phase = "committed"
    /\ commit.counter > commit.num_merge
    /\ commit.num_merge = num_blocks_to_merge
    /\ \E a \in MergedAway :
          /\ best_merge_for_each_block[a] >= 0
          /\ commit.block_map[a] # best_merge_for_each_block[a]


\* the edge rows of the parts loaded so far, as <<from, to, weight>> with the
\* ids of the file and weight 1 where the part has no weight column
RECURSIVE RowsOfParts(_, _)
RowsOfParts(files, parts) ==
    IF parts = 0 THEN << >>
    ELSE RowsOfParts(files, parts - 1)
         \o [i \in 1 .. Len(files[parts]) |->
                LET row == files[parts][i]
                IN <<row[1], row[2], IF Len(row) = 3 THEN row[3] ELSE 1>>]

LoadedRows == RowsOfParts(edge_files, cursor)

\* how often a sequence holds the element e
Occurrences(seq, e) == Cardinality({i \in 1 .. Len(seq) : seq[i] = e})

Width(partitions) ==
    IF partitions[0] # None
    THEN partitions[0].num_blocks - partitions[2].num_blocks
    ELSE partitions[1].num_blocks - partitions[2].num_blocks

\* a round without a lower snapshot continues from mid with fewer blocks
ShrinkingRound ==
    (phase = "phases" /\ lo = None)
        => /\ num_blocks = mid.num_blocks
           /\ num_blocks' < num_blocks

\* a driver step on a triplet with both ends narrows it; on one with the
\* lower end only, it narrows it or gains the upper end
NarrowingRound ==
    (phase = "search" /\ lo # None)
        => LET after == partition_triplet'.partitions
           IN /\ after[2] # None
              /\ IF hi # None
                 THEN /\ after[0] # None
                      /\ Width(after) < Width(partition_triplet.partitions)
                 ELSE IF after[0] = None
                 THEN Width(after) < Width(partition_triplet.partitions)
                 ELSE Width(after) <= Width(partition_triplet.partitions)

CutsInside(high, low) ==
    /\ high # None
    /\ num_blocks = high.num_blocks
    /\ 1 <= num_blocks_to_merge
    /\ num_blocks_to_merge < high.num_blocks - low.num_blocks
    /\ LET next_B == num_blocks - num_blocks_to_merge
       IN /\ low.num_blocks < next_B
          /\ next_B < high.num_blocks
          /\ \A p \in {hi, mid, lo} \ {None} : p.num_blocks # next_B

\* C26: in the golden-section branch of the driver step (lower snapshot
\* present, optimum not reported, triplet in strictly decreasing order of B)
\* the scheduled num_blocks_to_merge is at least 1 and below side_high.B -
\* side_low.B, so the next B lies strictly between the two ends of the side
\* taken and is none of the triplet's; the branch never reads a missing hi
C26_CutInsideSide ==
    (phase \in {"phases", "error"} /\ lo # None)
        => /\ phase = "phases"
           /\ CutsInside(hi, mid) \/ CutsInside(mid, lo)

\* the branch taken without an upper snapshot, on a side of 2 blocks
C26_CutWithoutHi ==
    /\ phase = "phases"
    /\ hi = None /\ lo # None
    /\ mid.num_blocks - lo.num_blocks = 2
    /\ CutsInside(mid, lo)
    /\ num_blocks_to_merge = 1


\* every block's recorded best merge is another block
ValidTargets ==
    \A x \in DOMAIN best_merge_for_each_block :
        /\ best_merge_for_each_block[x] \in DOMAIN best_merge_for_each_block
        /\ best_merge_for_each_block[x] # x

\* C27: the merge-commit loop never reads past the end of the sorted
\* candidate list: when every block's recorded best target is a valid block
\* other than itself and num_blocks_to_merge <= floor(B / 2), the merges
\* requested are reached after at most B candidates were examined, for every
\* order of the candidates and every choice of targets
C27_CommitStaysInRange ==
    (/\ phase \in {"commit_loop", "committed", "error"}
     /\ ValidTargets
     /\ num_blocks_to_merge <= before_merge.num_blocks \div 2)
        => /\ phase # "error"
           /\ commit.counter <= before_merge.num_blocks
           /\ commit.num_merge <= num_blocks_to_merge
           /\ phase = "committed" => commit.num_merge = num_blocks_to_merge

\* floor(B / 2) merges of 4 blocks done with the third candidate, one
\* candidate having been passed over
C27_LastCandidateMerged ==
    /\ phase = "committed"
    /\ ValidTargets
    /\ before_merge.num_blocks = 4
    /\ num_blocks_to_merge = 2
    /\ commit.num_merge = 2
    /\ commit.counter = 3


\* C28: a merge pass only coarsens the partition: two vertices with the same
\* block label before carry_out_best_merges have the same label after it,
\* relabelling and compaction done, so two vertices with different labels
\* afterwards had different labels before
C28_MergeOnlyCoarsens ==
    phase \in {"commit_loop", "committed"}
        => \A v, w \in DOMAIN block_assignment :
              /\ before_merge.block_assignment[v] = before_merge.block_assignment[w]
                    => block_assignment[v] = block_assignment[w]
              /\ block_assignment[v] # block_assignment[w]
                    => before_merge.block_assignment[v] # before_merge.block_assignment[w]

\* a finished commit that joined two blocks, one of them of two vertices, and
\* renumbered a block that was not merged
C28_BlocksJoinedAndRenumbered ==
    /\ phase = "committed"
    /\ \E v, w \in DOMAIN block_assignment :
          /\ v # w
          /\ before_merge.block_assignment[v] = before_merge.block_assignment[w]
          /\ \E u \in DOMAIN block_assignment :
                /\ before_merge.block_assignment[u] # before_merge.block_assignment[v]
                /\ block_assignment[u] = block_assignment[v]
    /\ \E x, y \in DOMAIN block_assignment :
          /\ block_assignment[x] # block_assignment[y]
          /\ block_assignment[x] # before_merge.block_assignment[x]


\* a degree vector changes at r and s alone, by -degree and +degree
DegreeMoved(old, new, r, s, degree) ==
    /\ DOMAIN new = DOMAIN old
    /\ \A t \in DOMAIN old \ {r, s} : new[t] = old[t]
    /\ r # s => new[r] = old[r] - degree /\ new[s] = old[s] + degree
    /\ r = s => new[r] = old[r]
    /\ SumOver(new, DOMAIN new) = SumOver(old, DOMAIN old)

\* what a committed move of vertex ni from r to s leaves as it was
MoveFrame(ni, r, s) ==
    /\ block_assignment'[ni] = s
    /\ \A v \in DOMAIN block_assignment \ {ni} :
          block_assignment'[v] = block_assignment[v]
    /\ DOMAIN block_assignment' = DOMAIN block_assignment
    /\ \A i, j \in Blocks(num_blocks) \ {r, s} :
          interblock_edge_count'[i][j] = interblock_edge_count[i][j]
    /\ DegreeMoved(block_degrees_out, block_degrees_out', r, s,
                   SumColumn(graph.out_neighbors[ni], 1))
    /\ DegreeMoved(block_degrees_in, block_degrees_in', r, s,
                   SumColumn(graph.in_neighbors[ni], 1))
    /\ DegreeMoved(block_degrees, block_degrees', r, s,
                   SumColumn(graph.out_neighbors[ni], 1)
                   + SumColumn(graph.in_neighbors[ni], 1))
    /\ num_blocks' = num_blocks
    /\ num_blocks_to_merge' = num_blocks_to_merge

\* C29: an accepted move of vertex ni from r to s changes block_assignment
\* at index ni only, M in rows r and s and columns r and s only, each degree
\* vector at r and s only (by -k and +k of the vertex's matching degree, the
\* vector's total kept), and leaves num_blocks and num_blocks_to_merge
C29_MoveFrame ==
    [][reassign_vertex
          => MoveFrame(proposal'.ni, block_assignment[proposal'.ni], proposal'.s)]_vars

\* a move between two of three blocks of a vertex with out- and in-edges
C29_VertexMovedBetweenBlocks ==
    /\ phase = "applied"
    /\ proposal.kind = "kernel"
    /\ num_blocks = 3
    /\ proposal.r # proposal.s
    /\ proposal.k_out > 0 /\ proposal.k_in > 0
    /\ block_assignment[proposal.ni] = proposal.s
    /\ block_degrees_out[proposal.s] >= proposal.k_out


\* the vertices sampled, and the edges of the graph between two of them
SampledSet == {sample.sample_idx[k] : k \in 1 .. Len(sample.sample_idx)}

InducedEdges ==
    SumOver([v \in SampledSet |->
                Len(Masked(get_neighbors(graph.out_neighbors, v), SampledSet))],
            SampledSet)

\* how many of the edges from v (or to v) of the list nbrs[v] go to w
EdgesBetween(nbrs, v, w) == Occurrences(get_neighbors(nbrs, v), w)

\* the sampled lists are the neighbours inside the sample, renumbered
InducedLists ==
    /\ Len(sample.out_neighbors) = Len(sample.sample_idx)
    /\ Len(sample.in_neighbors) = Len(sample.sample_idx)
    /\ \A k \in 1 .. Len(sample.sample_idx) :
          /\ \A j \in 1 .. Len(sample.sample_idx) :
                /\ Occurrences(sample.out_neighbors[k], j - 1)
                      = EdgesBetween(graph.out_neighbors, sample.sample_idx[k],
                                     sample.sample_idx[j])
                /\ Occurrences(sample.in_neighbors[k], j - 1)
                      = EdgesBetween(graph.in_neighbors, sample.sample_idx[k],
                                     sample.sample_idx[j])
          /\ \A i \in 1 .. Len(sample.out_neighbors[k]) :
                sample.out_neighbors[k][i] \in 0 .. Len(sample.sample_idx) - 1
          /\ \A i \in 1 .. Len(sample.in_neighbors[k]) :
                sample.in_neighbors[k][i] \in 0 .. Len(sample.sample_idx) - 1

\* vertex_mapping numbers the sampled vertices 0 .. n - 1 in sample order
MappingIsBijection ==
    /\ DOMAIN sample.vertex_mapping = SampledSet
    /\ \A k \in 1 .. Len(sample.sample_idx) :
          sample.vertex_mapping[sample.sample_idx[k]] = k - 1

\* C30: for any list of distinct sampled vertex ids, Sample builds the
\* induced subgraph: the vertices are renumbered 0 .. n-1 in sample order,
\* each sampled vertex's out and in neighbour list holds exactly its sampled
\* out and in neighbours under the new numbering, sample_num is n, and
\* num_edges is the number of directed edges of the graph with both
\* endpoints sampled
C30_InducedSubgraph ==
    phase = "sampled"
        => /\ MappingIsBijection
           /\ InducedLists
           /\ sample.sample_num = Len(sample.sample_idx)
           /\ sample.num_edges = InducedEdges

====
